---- MODULE Spec2Model ----
(***************************************************************************)
(* Model of the padel-court booking run: main() of src/unnamed/part_001.   *)
(* The remote page (grid of slots, confirmation dialog) is the             *)
(* environment: every read of the dialog observes an arbitrary state, and   *)
(* the grid may be re-rendered between attempts.                           *)
(* Strings that the code searches with String.includes are sequences of    *)
(* tokens, and includes is the contiguous-subsequence test.                *)
(***************************************************************************)
EXTENDS Integers, Sequences, FiniteSets, TLC

(* ------------------------------ bounds --------------------------------- *)
\* rows of the booking grid that the page renders
NumRows == 2
\* columns (courts) of the booking grid that the page renders
NumCols == 2
\* number of runs of main followed in one process
NumRuns == 2

(* ------------------------- program constants --------------------------- *)
MAX_BOOKING_ATTEMPTS == 3
maxAttempts == 20

weekdayTimes == <<"12:00", "13:00", "14:00", "11:00", "15:00", "16:00", "19:00", "17:00", "20:00">>
weekendTimes == <<"16:00", "17:00", "15:00", "14:00", "18:00", "19:00", "20:00">>

\* the labels of the three dialog steps, as token sequences
ButtonTexts == << <<"Next">>, <<"Next">>, <<"Confirm", "booking">> >>

(* ------------------------------ the page ------------------------------- *)
\* time labels of the grid rows, top to bottom
RowTimes == <<"11:00", "12:00", "16:00", "14:00">>
RowTime(r) == RowTimes[((r - 1) % Len(RowTimes)) + 1]

\* court headings (.BookingGridArea-name), left to right
Court1 == <<"Court", "1">>
Court2 == <<"Court", "2">>
Court3 == <<"Court", "3">>
HeaderChoices == { <<Court1, Court2>>, <<Court2, Court3>> }
PreferredChoices == {"1", "2", "3"}

Cells == 1..(NumRows * NumCols)
RowOf(i) == ((i - 1) \div NumCols) + 1
ColOf(i) == ((i - 1) % NumCols) + 1
\* .Slot-text of cell i, trimmed
TextOf(i) == << RowTime(RowOf(i)) >>

\* the dialog as the page shows it: .Modal-content (absent, without or with
\* the conflict marker) and the text of the primary action button (<<>>: absent)
ContentKinds == {"none", "plain", "alreadyBooked"}
ButtonKinds == { <<>>, <<"Next">>, <<"Confirm", "booking">>, <<"Close">> }
ModalStates == [content : ContentKinds, button : ButtonKinds]
NoModal == [content |-> "none", button |-> <<>>]

(* --------------------------- pure functions ---------------------------- *)
\* String.prototype.includes on token sequences
Includes(text, pat) ==
    \E i \in 0..(Len(text) - Len(pat)) : SubSeq(text, i + 1, i + Len(pat)) = pat

(* ------------------------------ selector ------------------------------- *)
Indices(g) == [i \in DOMAIN g |-> i]

\* the data-booking-attempted attribute after getAvailableSlots has run
MarkUnset(g) ==
    [i \in DOMAIN g |->
        [g[i] EXCEPT !.attempted = IF @ = "absent" THEN "false" ELSE @]]

\* the filter applied to the attribute as found, the mark written afterwards
getAvailableSlotsBeforeMark(g) ==
    LET Keep(i) == /\ TextOf(i) # <<>>
                   /\ g[i].available
                   /\ g[i].attempted = "false"
    IN  SelectSeq(Indices(g), Keep)

\* cells that are available and not yet attempted, in document order
getAvailableSlots(g) ==
    LET Keep(i) == /\ TextOf(i) # <<>>
                   /\ g[i].available
                   /\ MarkUnset(g)[i].attempted = "false"
    IN  SelectSeq(Indices(g), Keep)

CourtName(i, hdrs) ==
    IF ColOf(i) <= Len(hdrs) THEN hdrs[ColOf(i)] ELSE <<"Unknown">>

getCourtInfo(i, hdrs, pref) ==
    LET name == CourtName(i, hdrs)
        number == IF Includes(name, Court1) THEN "1" ELSE "2"
    IN  [name |-> name, number |-> number, isPreferred |-> (number = pref)]

\* availableSlots of the priority loop, for one target time
SlotsAt(g, t) ==
    LET AtTime(i) == Includes(TextOf(i), <<t>>)
    IN  SelectSeq(getAvailableSlots(g), AtTime)

sortedSlotsUnsorted(s, hdrs, pref) == s
\* Array.prototype.sort with (a, b) => b.isPreferred - a.isPreferred (stable)
sortedSlots(s, hdrs, pref) ==
    LET IsPref(i) == getCourtInfo(i, hdrs, pref).isPreferred
        NotPref(i) == ~getCourtInfo(i, hdrs, pref).isPreferred
    IN  SelectSeq(s, IsPref) \o SelectSeq(s, NotPref)

FirstTargetInGridOrder(g, times) ==
    LET hits == {k \in 1..Len(times) : SlotsAt(g, times[k]) # <<>>}
    IN  IF hits = {} THEN 0
        ELSE CHOOSE k \in hits :
                \A j \in hits : SlotsAt(g, times[k])[1] <= SlotsAt(g, times[j])[1]
\* index of the first priority time that has a slot, 0 when none has
FirstTarget(g, times) ==
    LET hits == {k \in 1..Len(times) : SlotsAt(g, times[k]) # <<>>}
    IN  IF hits = {} THEN 0
        ELSE CHOOSE k \in hits : \A j \in hits : k <= j

\* the slot the selector clicks for target time t
ChosenSlot(g, t, hdrs, pref) == sortedSlots(SlotsAt(g, t), hdrs, pref)[1]

(* ------------------------------ messages ------------------------------- *)
NotFoundMsg(k) ==
    IF k = 3 THEN "Confirm booking button not found after waiting"
    ELSE "Next button not found after waiting"
ClickFailedMsg(k) ==
    IF k = 3
    THEN "Failed to click Confirm booking button: Confirm booking button not found or not clickable"
    ELSE "Failed to click Next button: Next button not found or not clickable"
ExhaustedMsg == "Failed to book after 3 attempts - all attempted slots were already booked"
NoSlotsMsg == "No available slots found for this day"
NoMoreSlotsMsg == "No more available slots found at preferred times"
\* the padel bookings base URL, and the URLs the page may be at when it is
\* read: the bookings page of the date, the login page, another facility
BOOKINGS_URL == << "helloclub.com", "bookings", "padel" >>
UrlChoices ==
    { BOOKINGS_URL \o << "date" >>,
      << "helloclub.com", "login" >>,
      << "helloclub.com", "bookings", "cricket-nets", "date" >> }

NavFailedMsg == "Navigation failed: Not on the expected padel bookings page."
NavFailedAfterMsg == "Navigation failed: Not on the expected padel bookings page after slots loaded."
GridTimeoutMsg == "Waiting for selector .BookingGrid-cell.Slot failed"
ButtonTimeoutMsg == "Waiting for selector button.Button.Button--success.ng-animate-disabled failed"
NoEmailMsg == "Could not find email input field in the form"
RejectedMsg == "operation rejected"

NoClickResult ==
    [defined |-> FALSE, success |-> FALSE, timeBooked |-> "null",
     courtBooked |-> <<>>, wasPreferredCourt |-> FALSE,
     requiredSecondClick |-> FALSE]
NoResult ==
    [kind |-> "pending", success |-> FALSE, debug |-> FALSE,
     error |-> "none", timeBooked |-> "null"]

(* ------------------------------- state --------------------------------- *)
VARIABLES
    pc,                 \* position in main
    debug_mode,         \* appConfig.debug_mode
    preferred_court,    \* appConfig.preferred_court
    component,          \* which exported entry point runs
    logs,               \* the module-level logs array: who emitted each line
    runs,               \* the calls of main made in this process
    inflight,           \* page operations started and not yet settled
    slots,              \* the array the last call of getAvailableSlots returned
    dialog,             \* SpecDialog: the step the dialog shows, clicks not yet acted on
    clickedSteps,       \* SpecDialog: the dialog step each button click landed on
    currentUrl,         \* the URL read right after page.goto (<<>>: not read)
    currentUrlAfterSlots, \* the URL read after the slots loaded
    today,              \* the instant the run starts: << UTC hours, offset >> (<<>>: not read)
    formattedDate,      \* the UTC day of the target date (-1: not computed)
    boot,               \* the state of the profile bootstrap utility
    confirmClicks,      \* history: Confirm booking clicks of main in this run
    session,            \* local session: "null" or "set"
    browser,            \* local browser: "null" or "set"
    priorityTimes,      \* weekdayTimes or weekendTimes
    headers,            \* court headings of the rendered grid
    grid,               \* the slot cells in document order
    modal,              \* the dialog as last observed
    bookingAttempts,
    slot,               \* the cell chosen inside page.evaluate (0: none)
    targetTime,         \* the priority time it was chosen for
    clickResult,
    step,               \* index into ButtonTexts
    isSlotAlreadyBooked,
    poll,               \* loop counter of waitForModalUpdate
    error,              \* the Error caught by the outer catch ("none": none)
    result,             \* what main settled with
    act,                \* the page action performed by the last step
    selectorCalls,      \* history: runs of the in-page selector
    picked,             \* history: the cells selected, one per attempt
    conflicts,          \* history: attempts that saw the conflict marker
    stepsClicked,       \* history: dialog buttons clicked in this attempt
    sessionsCreated,    \* history: sessions.create calls that succeeded
    browsersConnected,  \* history: connect calls that succeeded
    closeCalls,         \* history: browser.close invocations
    stopCalls           \* history: sessions.stop invocations

vars == << pc, debug_mode, preferred_court, component, logs, runs, inflight,
           slots, dialog, clickedSteps, currentUrl, currentUrlAfterSlots,
               today, formattedDate, boot, confirmClicks, session,
               browser, priorityTimes,
           headers, grid, modal, bookingAttempts, slot, targetTime,
           clickResult, step, isSlotAlreadyBooked, poll, error, result, act,
           selectorCalls, picked, conflicts, stepsClicked, sessionsCreated,
           browsersConnected, closeCalls, stopCalls >>

\* the configuration, and the process state of SpecLogs that the steps of a
\* single booking flow are not followed through
cfgVars == << debug_mode, preferred_court, component, logs, runs, inflight,
             slots, dialog, clickedSteps, currentUrl, currentUrlAfterSlots,
             today, formattedDate, boot, confirmClicks >>
resVars == << session, browser, sessionsCreated, browsersConnected, closeCalls, stopCalls >>
gridVars == << headers, grid >>
\* locals of the loop body and of the in-page selector
locals == << step, isSlotAlreadyBooked, poll, slot, targetTime >>
histVars == << selectorCalls, picked, conflicts, stepsClicked >>

\* the calls of main made one after the other or interleaved in one process
Runs == 1..NumRuns
NoRuns == [r \in Runs |-> [pc |-> "idle", session |-> 0, stopped |-> FALSE]]

\* the profile bootstrap utility has not been started
NoBoot == [user |-> 0, creds |-> <<>>, browser |-> "null", profiles |-> <<>>,
           sessions |-> <<>>, started |-> {}, done |-> {}]

\* no dialog is followed step by step
NoDialog == [shown |-> 0, queued |-> 0, busy |-> FALSE]

hasModalContentOnly(m) == m.content # "none"
\* hasModal: !!modalContent || !!nextButton
hasModal(m) == m.content # "none" \/ m.button # <<>>
hasNextButton(m) == m.button # <<>>
isAlreadyBooked(m) == m.content = "alreadyBooked"

Init ==
    /\ pc = "start"
    /\ debug_mode \in BOOLEAN
    /\ preferred_court \in PreferredChoices
    /\ component = "main"
    /\ session = "null"
    /\ browser = "null"
    /\ priorityTimes = <<>>
    /\ headers = <<>>
    /\ grid = <<>>
    /\ modal = NoModal
    /\ bookingAttempts = 0
    /\ slot = 0
    /\ targetTime = "none"
    /\ clickResult = NoClickResult
    /\ step = 0
    /\ isSlotAlreadyBooked = FALSE
    /\ poll = 0
    /\ error = "none"
    /\ result = NoResult
    /\ act = "none"
    /\ selectorCalls = 0
    /\ picked = <<>>
    /\ conflicts = 0
    /\ stepsClicked = 0
    /\ sessionsCreated = 0
    /\ browsersConnected = 0
    /\ closeCalls = 0
    /\ stopCalls = 0
    /\ logs = <<>>
    /\ runs = NoRuns
    /\ inflight = {}
    /\ slots = <<>>
    /\ dialog = NoDialog
    /\ clickedSteps = <<>>
    /\ confirmClicks = 0
    /\ boot = NoBoot
    /\ formattedDate = -1
    /\ today = <<>>
    /\ currentUrlAfterSlots = <<>>
    /\ currentUrl = <<>>

\* the locals of the loop body go out of scope
DropLocals ==
    /\ step' = 0
    /\ isSlotAlreadyBooked' = FALSE
    /\ poll' = 0
    /\ slot' = 0
    /\ targetTime' = "none"

\* the browser has been closed: its page, grid and dialog no longer exist
PageGone ==
    /\ headers' = <<>>
    /\ grid' = <<>>
    /\ modal' = NoModal

\* throw inside the try block of main: control moves to its catch
Throw(msg) ==
    /\ pc' = "catch"
    /\ error' = msg
    /\ DropLocals

\* the object the catch block returns
FailureResult ==
    [kind |-> "returned", success |-> FALSE, debug |-> FALSE, error |-> error,
     timeBooked |-> IF clickResult.defined THEN clickResult.timeBooked ELSE "null"]

(* ------------------------- start-up of the run ------------------------- *)
StartIgnoresDebug ==
    /\ pc = "start"
    /\ pc' = "createSession"
    /\ act' = "none"
    /\ UNCHANGED << cfgVars, resVars, priorityTimes, gridVars, modal,
                    bookingAttempts, clickResult, locals, histVars, error, result >>
\* the configuration and the debug branch at the head of the try block
Start ==
    /\ pc = "start"
    /\ IF debug_mode
       THEN /\ pc' = "done"
            /\ result' = [kind |-> "returned", success |-> TRUE, debug |-> TRUE,
                          error |-> "none", timeBooked |-> "null"]
       ELSE /\ pc' = "createSession"
            /\ UNCHANGED result
    /\ act' = "none"
    /\ UNCHANGED << cfgVars, resVars, priorityTimes, gridVars, modal,
                    bookingAttempts, clickResult, locals, histVars, error >>

CreateSession ==
    /\ pc = "createSession"
    /\ session' = "set"
    /\ sessionsCreated' = sessionsCreated + 1
    /\ pc' = "connect"
    /\ act' = "none"
    /\ UNCHANGED << cfgVars, browser, browsersConnected, closeCalls, stopCalls,
                    priorityTimes, gridVars, modal, bookingAttempts, clickResult,
                    locals, histVars, error, result >>

Connect ==
    /\ pc = "connect"
    /\ browser' = "set"
    /\ browsersConnected' = browsersConnected + 1
    /\ pc' = "pages"
    /\ act' = "none"
    /\ UNCHANGED << cfgVars, session, sessionsCreated, closeCalls, stopCalls,
                    priorityTimes, gridVars, modal, bookingAttempts, clickResult,
                    locals, histVars, error, result >>

Pages ==
    /\ pc = "pages"
    /\ pc' = "login"
    /\ act' = "none"
    /\ UNCHANGED << cfgVars, resVars, priorityTimes, gridVars, modal,
                    bookingAttempts, clickResult, locals, histVars, error, result >>

Login ==
    /\ pc = "login"
    /\ \E useProfile \in BOOLEAN, emailInput \in BOOLEAN :
          IF useProfile \/ emailInput
          THEN pc' = "navigate" /\ UNCHANGED << error, locals >>
          ELSE Throw(NoEmailMsg)
    /\ act' = "none"
    /\ UNCHANGED << cfgVars, resVars, priorityTimes, gridVars, modal,
                    bookingAttempts, clickResult, histVars, result >>

Navigate ==
    /\ pc = "navigate"
    /\ \E isWeekend \in BOOLEAN :
          priorityTimes' = IF isWeekend THEN weekendTimes ELSE weekdayTimes
    /\ \E url \in UrlChoices :
          /\ currentUrl' = url
          /\ IF Includes(url, BOOKINGS_URL)
             THEN pc' = "waitSlots" /\ UNCHANGED << error, locals >>
             ELSE Throw(NavFailedMsg)
    /\ act' = "none"
    /\ UNCHANGED << debug_mode, preferred_court, component, logs, runs, inflight,
                    slots, dialog, clickedSteps, currentUrlAfterSlots,
                    today, formattedDate, boot, confirmClicks, resVars,
                    gridVars,
                    modal,
                    bookingAttempts,
                    clickResult, histVars, result >>

\* main never reads the 'disabled' class of a cell: its runs are explored on
\* grids without it, and SpecSelector applies the selector to grids with it
WaitSlots ==
    /\ pc = "waitSlots"
    /\ \/ /\ headers' \in HeaderChoices
          /\ grid' \in [Cells -> [available : BOOLEAN, disabled : {FALSE},
                                  attempted : {"absent"}]]
          /\ pc' = "checkUrl"
          /\ UNCHANGED << error, locals >>
       \/ /\ Throw(GridTimeoutMsg)
          /\ UNCHANGED << headers, grid >>
    /\ act' = "none"
    /\ UNCHANGED << cfgVars, resVars, priorityTimes, modal, bookingAttempts,
                    clickResult, histVars, result >>

CheckUrl ==
    /\ pc = "checkUrl"
    /\ \E url \in UrlChoices :
          /\ currentUrlAfterSlots' = url
          /\ IF Includes(url, BOOKINGS_URL)
             THEN pc' = "readSlots" /\ UNCHANGED << error, locals >>
             ELSE Throw(NavFailedAfterMsg)
    /\ act' = "none"
    /\ UNCHANGED << debug_mode, preferred_court, component, logs, runs, inflight,
                    slots, dialog, clickedSteps, currentUrl, today,
                    formattedDate, boot, confirmClicks,
                    resVars, priorityTimes, gridVars, modal, bookingAttempts,
                    clickResult, histVars, result >>

ReadSlots ==
    /\ pc = "readSlots"
    /\ IF \E i \in DOMAIN grid : grid[i].available
       THEN pc' = "loop" /\ UNCHANGED << error, locals >>
       ELSE Throw(NoSlotsMsg)
    /\ act' = "none"
    /\ UNCHANGED << cfgVars, resVars, priorityTimes, gridVars, modal,
                    bookingAttempts, clickResult, histVars, result >>

(* ---------------------------- attempt loop ----------------------------- *)
AttemptsLeftOffByOne == bookingAttempts <= MAX_BOOKING_ATTEMPTS
\* the condition of the while loop
AttemptsLeft == bookingAttempts < MAX_BOOKING_ATTEMPTS

\* the statement after the while loop
LoopExit == Throw(ExhaustedMsg)

LoopHead ==
    /\ pc = "loop"
    /\ IF AttemptsLeft
       THEN /\ bookingAttempts' = bookingAttempts + 1
            /\ pc' = "select"
            /\ UNCHANGED << error, locals >>
       ELSE /\ LoopExit
            /\ UNCHANGED bookingAttempts
    /\ act' = "none"
    /\ UNCHANGED << cfgVars, resVars, priorityTimes, gridVars, modal,
                    clickResult, histVars, result >>

MarkNothing(g, c) == MarkUnset(g)
\* slot.setAttribute('data-booking-attempted', 'true') on the chosen cell,
\* after getAvailableSlots has run
MarkAttempted(g, c) == [MarkUnset(g) EXCEPT ![c].attempted = "true"]

\* the in-page selector up to the first click on the slot
SelectSlot ==
    /\ pc = "select"
    /\ LET k == FirstTarget(grid, priorityTimes) IN
       IF k = 0
       THEN /\ grid' = MarkUnset(grid)
            /\ clickResult' = [NoClickResult EXCEPT !.defined = TRUE]
            /\ Throw(NoMoreSlotsMsg)
            /\ act' = "none"
            /\ UNCHANGED picked
       ELSE LET t == priorityTimes[k]
                c == ChosenSlot(grid, t, headers, preferred_court)
            IN  /\ grid' = MarkAttempted(grid, c)
                /\ slot' = c
                /\ targetTime' = t
                /\ picked' = Append(picked, c)
                /\ act' = "slotClick"
                /\ pc' = "settle"
                /\ UNCHANGED << clickResult, error, step, isSlotAlreadyBooked, poll >>
    /\ selectorCalls' = selectorCalls + 1
    /\ stepsClicked' = 0
    /\ UNCHANGED << cfgVars, resVars, priorityTimes, headers, modal,
                    bookingAttempts, conflicts, result >>

modalVisibleOrContent(m) == hasModal(m)
\* const modalVisible = !!document.querySelector(<the action button>)
modalVisible(m) == m.button # <<>>

\* after the settle interval: second click when the action button is absent
Settle ==
    /\ pc = "settle"
    /\ \E m \in ModalStates :
          LET courtInfo == getCourtInfo(slot, headers, preferred_court)
          IN  /\ modal' = m
              /\ act' = IF modalVisible(m) THEN "none" ELSE "slotClickAgain"
              /\ clickResult' =
                    [defined |-> TRUE, success |-> TRUE, timeBooked |-> targetTime,
                     courtBooked |-> courtInfo.name,
                     wasPreferredCourt |-> courtInfo.isPreferred,
                     requiredSecondClick |-> ~modalVisible(m)]
    /\ pc' = "waitNext"
    /\ slot' = 0
    /\ targetTime' = "none"
    /\ UNCHANGED << cfgVars, resVars, priorityTimes, gridVars, bookingAttempts,
                    step, isSlotAlreadyBooked, poll, histVars, error, result >>

\* a wait for the action button succeeds when the button shows in time
ButtonAppeared(m) == m.button # <<>>

\* page.waitForSelector for the action button before the three steps
WaitNextButton ==
    /\ pc = "waitNext"
    /\ \E m \in ModalStates :
          /\ modal' = m
          /\ IF ButtonAppeared(m)
             THEN /\ pc' = "waitButton"
                  /\ step' = 1
                  /\ isSlotAlreadyBooked' = FALSE
                  /\ UNCHANGED << error, poll, slot, targetTime >>
             ELSE Throw(ButtonTimeoutMsg)
    /\ act' = "none"
    /\ UNCHANGED << cfgVars, resVars, priorityTimes, gridVars, bookingAttempts,
                    clickResult, histVars, result >>

\* waitForElement at the head of each step
WaitButton ==
    /\ pc = "waitButton"
    /\ \E m \in ModalStates :
          /\ modal' = m
          /\ IF ButtonAppeared(m)
             THEN pc' = "clickButton" /\ UNCHANGED << error, locals >>
             ELSE Throw(NotFoundMsg(step))
    /\ act' = "none"
    /\ UNCHANGED << cfgVars, resVars, priorityTimes, gridVars, bookingAttempts,
                    clickResult, histVars, result >>

LabelMatchesAny(m, s) == m.button # <<>>
\* button && button.textContent.trim().includes(text)
LabelMatches(m, s) == m.button # <<>> /\ Includes(m.button, ButtonTexts[s])

\* the in-page click of the step's button
ClickButton ==
    /\ pc = "clickButton"
    /\ \E m \in ModalStates :
          /\ modal' = m
          /\ IF LabelMatches(m, step)
             THEN /\ act' = IF step = 3 THEN "clickConfirm" ELSE "clickNext"
                  /\ stepsClicked' = stepsClicked + 1
                  /\ confirmClicks' = IF step = 3 THEN confirmClicks + 1
                                      ELSE confirmClicks
                  /\ pc' = IF step = 3 THEN "pollConfirm" ELSE "pollNext"
                  /\ UNCHANGED << error, locals >>
             ELSE /\ Throw(ClickFailedMsg(step))
                  /\ act' = "none"
                  /\ UNCHANGED << stepsClicked, confirmClicks >>
    /\ UNCHANGED << debug_mode, preferred_court, component, logs, runs, inflight,
                    slots, dialog, clickedSteps, currentUrl,
                    currentUrlAfterSlots, today, formattedDate, boot, resVars,
                    priorityTimes,
                    gridVars, bookingAttempts, clickResult, selectorCalls,
                    picked, conflicts, result >>

\* what a Next step does with the state waitForModalUpdate returned
AfterNext(m) ==
    IF isAlreadyBooked(m)
    THEN /\ isSlotAlreadyBooked' = TRUE
         /\ conflicts' = IF isSlotAlreadyBooked THEN conflicts ELSE conflicts + 1
         /\ pc' = "cancel"
         /\ UNCHANGED step
    ELSE /\ step' = step + 1
         /\ pc' = "waitButton"
         /\ UNCHANGED << isSlotAlreadyBooked, conflicts >>

\* the check of waitForModalUpdate through which a read of the dialog ends
\* the wait, for expectedState {hasModal: wantModal} ("none": it does not);
\* no caller passes isAlreadyBooked, so the second check never applies
WhichCheck(m, wantModal) ==
    IF hasModal(m) = wantModal THEN "hasModal"
    ELSE IF wantModal /\ hasNextButton(m) THEN "hasNextButton"
    ELSE "none"

PollAgainUnbounded(i, m, wantModal) == WhichCheck(m, wantModal) = "none"
\* the for loop of waitForModalUpdate goes round again after read i
PollAgain(i, m, wantModal) ==
    i < maxAttempts /\ WhichCheck(m, wantModal) = "none"

\* waitForModalUpdate(page, {hasModal: true}) after a Next click
PollNext ==
    /\ pc = "pollNext"
    /\ \E m \in ModalStates :
          /\ modal' = m
          /\ IF PollAgain(poll, m, TRUE)
             THEN /\ poll' = poll + 1
                  /\ UNCHANGED << pc, step, isSlotAlreadyBooked, conflicts >>
             ELSE /\ AfterNext(m)
                  /\ poll' = 0
    /\ act' = "none"
    /\ UNCHANGED << cfgVars, resVars, priorityTimes, gridVars, bookingAttempts,
                    clickResult, slot, targetTime, selectorCalls, picked,
                    stepsClicked, error, result >>

\* the conflict branch: click Cancel when the document has such a button
Cancel ==
    /\ pc = "cancel"
    /\ \E cancelButton \in BOOLEAN :
          IF cancelButton
          THEN act' = "cancelClick" /\ pc' = "pollClose"
          ELSE act' = "none" /\ pc' = "afterSteps"
    /\ UNCHANGED << cfgVars, resVars, priorityTimes, gridVars, modal,
                    bookingAttempts, clickResult, locals, histVars, error, result >>

\* waitForModalUpdate(page, {hasModal: false}) after the Cancel click.
\* A poll that does not end the wait only tells the code that the dialog is
\* still there, so the dialog is taken to hold still until the poll that
\* ends the wait (or the final read) observes its next state.
PollClose ==
    /\ pc = "pollClose"
    /\ \E m \in ModalStates :
          /\ modal' = m
          /\ IF PollAgain(poll, m, FALSE)
             THEN /\ hasModal(modal) => m = modal
                  /\ poll' = poll + 1
                  /\ UNCHANGED pc
             ELSE /\ pc' = "afterSteps"
                  /\ poll' = 0
    /\ act' = "none"
    /\ UNCHANGED << cfgVars, resVars, priorityTimes, gridVars, bookingAttempts,
                    clickResult, step, isSlotAlreadyBooked, slot, targetTime,
                    histVars, error, result >>

\* waitForModalUpdate(page, {hasModal: true}) after the Confirm click
PollConfirm ==
    /\ pc = "pollConfirm"
    /\ \E m \in ModalStates :
          /\ modal' = m
          /\ IF PollAgain(poll, m, TRUE)
             THEN poll' = poll + 1 /\ UNCHANGED pc
             ELSE pc' = "afterSteps" /\ poll' = 0
    /\ act' = "none"
    /\ UNCHANGED << cfgVars, resVars, priorityTimes, gridVars, bookingAttempts,
                    clickResult, step, isSlotAlreadyBooked, slot, targetTime,
                    histVars, error, result >>

\* after the for loop over the steps: retry on conflict, else clean up
AfterSteps ==
    /\ pc = "afterSteps"
    /\ pc' = IF isSlotAlreadyBooked THEN "loop" ELSE "closeBrowser"
    /\ DropLocals
    /\ act' = "none"
    /\ UNCHANGED << cfgVars, resVars, priorityTimes, gridVars, modal,
                    bookingAttempts, clickResult, histVars, error, result >>

\* browser.close() on the success path; the page and its dialog are gone
CloseBrowser ==
    /\ pc = "closeBrowser"
    /\ closeCalls' = closeCalls + 1
    /\ browser' = "null"
    /\ PageGone
    /\ pc' = "stopSession"
    /\ act' = "none"
    /\ UNCHANGED << cfgVars, session, sessionsCreated, browsersConnected, stopCalls,
                    priorityTimes, bookingAttempts, clickResult, locals,
                    histVars, error, result >>

\* the object the success path returns
SuccessResult ==
    [kind |-> "returned", success |-> TRUE, debug |-> FALSE,
     error |-> "none", timeBooked |-> clickResult.timeBooked]

StopSession ==
    /\ pc = "stopSession"
    /\ stopCalls' = stopCalls + 1
    /\ session' = "null"
    /\ result' = SuccessResult
    /\ pc' = "done"
    /\ act' = "none"
    /\ UNCHANGED << cfgVars, browser, sessionsCreated, browsersConnected, closeCalls,
                    priorityTimes, gridVars, modal, bookingAttempts, clickResult,
                    locals, histVars, error >>

(* ----------------------------- catch block ----------------------------- *)
\* if (browser) await browser.close()
CatchClose ==
    /\ pc = "catch"
    /\ IF browser = "set"
       THEN closeCalls' = closeCalls + 1 /\ PageGone
       ELSE UNCHANGED << closeCalls, gridVars, modal >>
    /\ pc' = "catchStop"
    /\ act' = "none"
    /\ UNCHANGED << cfgVars, session, browser, sessionsCreated, browsersConnected,
                    stopCalls, priorityTimes, bookingAttempts,
                    clickResult, locals, histVars, error, result >>

\* if (session) await client.sessions.stop(session.id); return {...}
CatchStop ==
    /\ pc = "catchStop"
    /\ stopCalls' = IF session = "set" THEN stopCalls + 1 ELSE stopCalls
    /\ result' = FailureResult
    /\ pc' = "done"
    /\ act' = "none"
    /\ UNCHANGED << cfgVars, session, browser, sessionsCreated, browsersConnected,
                    closeCalls, priorityTimes, gridVars, modal, bookingAttempts,
                    clickResult, locals, histVars, error >>

(* --------------------------- the page changes -------------------------- *)
\* the grid is re-rendered between two attempts: the cells are new elements
GridRerender ==
    /\ pc = "loop"
    /\ \E i \in DOMAIN grid : grid[i].attempted # "absent"
    /\ grid' = [i \in DOMAIN grid |-> [grid[i] EXCEPT !.attempted = "absent"]]
    /\ act' = "none"
    /\ UNCHANGED << pc, cfgVars, resVars, priorityTimes, headers, modal,
                    bookingAttempts, clickResult, locals, histVars, error, result >>

(* ------------------- awaited operations that reject -------------------- *)
\* the awaited calls of the try block whose rejection reaches its catch
OuterAwaits ==
    {"createSession", "connect", "pages", "login", "navigate", "waitSlots",
     "checkUrl", "readSlots", "select", "settle", "waitNext", "clickButton",
     "modalCatch", "confirmCatch"}

OperationRejects ==
    /\ pc \in OuterAwaits
    /\ Throw(RejectedMsg)
    /\ act' = "none"
    /\ UNCHANGED << cfgVars, resVars, priorityTimes, gridVars, modal,
                    bookingAttempts, clickResult, histVars, result >>

CloseRejects ==
    /\ pc = "closeBrowser"
    /\ closeCalls' = closeCalls + 1
    /\ Throw(RejectedMsg)
    /\ act' = "none"
    /\ UNCHANGED << cfgVars, session, browser, sessionsCreated, browsersConnected,
                    stopCalls, priorityTimes, gridVars, modal, bookingAttempts,
                    clickResult, histVars, result >>

StopRejects ==
    /\ pc = "stopSession"
    /\ stopCalls' = stopCalls + 1
    /\ Throw(RejectedMsg)
    /\ act' = "none"
    /\ UNCHANGED << cfgVars, session, browser, sessionsCreated, browsersConnected,
                    closeCalls, priorityTimes, gridVars, modal, bookingAttempts,
                    clickResult, histVars, result >>

\* a rejection inside the try block around the modal wait of a Next step
ModalWaitRejects ==
    /\ pc \in {"pollNext", "cancel", "pollClose"}
    /\ pc' = "modalCatch"
    /\ poll' = 0
    /\ act' = "none"
    /\ UNCHANGED << cfgVars, resVars, priorityTimes, gridVars, modal,
                    bookingAttempts, clickResult, step, isSlotAlreadyBooked,
                    slot, targetTime, histVars, error, result >>

\* catch (modalError) of a Next step
ModalCatch ==
    /\ pc = "modalCatch"
    /\ \E m \in ModalStates, isSlotGridVisible \in BOOLEAN :
          /\ modal' = m
          /\ IF (isSlotGridVisible /\ m.content = "none") \/ m.button # <<>>
             THEN /\ step' = step + 1
                  /\ pc' = "waitButton"
                  /\ UNCHANGED << error, isSlotAlreadyBooked, poll, slot, targetTime >>
             ELSE Throw(RejectedMsg)
    /\ act' = "none"
    /\ UNCHANGED << cfgVars, resVars, priorityTimes, gridVars, bookingAttempts,
                    clickResult, histVars, result >>

ConfirmWaitRejects ==
    /\ pc = "pollConfirm"
    /\ pc' = "confirmCatch"
    /\ poll' = 0
    /\ act' = "none"
    /\ UNCHANGED << cfgVars, resVars, priorityTimes, gridVars, modal,
                    bookingAttempts, clickResult, step, isSlotAlreadyBooked,
                    slot, targetTime, histVars, error, result >>

\* catch (modalError) of the Confirm step
ConfirmCatch ==
    /\ pc = "confirmCatch"
    /\ \E m \in ModalStates, bookingSuccessful \in BOOLEAN :
          /\ modal' = m
          /\ IF m.content # "none" /\ bookingSuccessful
             THEN pc' = "afterSteps" /\ UNCHANGED << error, locals >>
             ELSE Throw(RejectedMsg)
    /\ act' = "none"
    /\ UNCHANGED << cfgVars, resVars, priorityTimes, gridVars, bookingAttempts,
                    clickResult, histVars, result >>

\* main itself rejects: nothing is returned
Rejection ==
    [kind |-> "rejected", success |-> FALSE, debug |-> FALSE,
     error |-> RejectedMsg, timeBooked |-> "null"]

CatchCloseRejects ==
    /\ pc = "catch"
    /\ browser = "set"
    /\ closeCalls' = closeCalls + 1
    /\ result' = Rejection
    /\ pc' = "done"
    /\ act' = "none"
    /\ UNCHANGED << cfgVars, session, browser, sessionsCreated, browsersConnected,
                    stopCalls, priorityTimes, gridVars, modal, bookingAttempts,
                    clickResult, locals, histVars, error >>

CatchStopRejects ==
    /\ pc = "catchStop"
    /\ session = "set"
    /\ stopCalls' = stopCalls + 1
    /\ result' = Rejection
    /\ pc' = "done"
    /\ act' = "none"
    /\ UNCHANGED << cfgVars, session, browser, sessionsCreated, browsersConnected,
                    closeCalls, priorityTimes, gridVars, modal, bookingAttempts,
                    clickResult, locals, histVars, error >>

(* --------------------------- specifications ---------------------------- *)
\* every awaited operation settles; waits may still time out
NextNominal ==
    \/ Start \/ CreateSession \/ Connect \/ Pages \/ Login \/ Navigate
    \/ WaitSlots \/ CheckUrl \/ ReadSlots \/ LoopHead \/ SelectSlot \/ Settle
    \/ WaitNextButton \/ WaitButton \/ ClickButton \/ PollNext \/ Cancel
    \/ PollClose \/ PollConfirm \/ AfterSteps \/ CloseBrowser \/ StopSession
    \/ CatchClose \/ CatchStop \/ GridRerender

\* any awaited operation may also reject
Next ==
    \/ Start \/ CreateSession \/ Connect \/ Pages \/ Login \/ Navigate
    \/ WaitSlots \/ CheckUrl \/ ReadSlots \/ LoopHead \/ SelectSlot \/ Settle
    \/ WaitNextButton \/ WaitButton \/ ClickButton \/ PollNext \/ Cancel
    \/ PollClose \/ PollConfirm \/ AfterSteps \/ CloseBrowser \/ StopSession
    \/ CatchClose \/ CatchStop \/ GridRerender
    \/ OperationRejects \/ CloseRejects \/ StopRejects \/ ModalWaitRejects
    \/ ModalCatch \/ ConfirmWaitRejects \/ ConfirmCatch
    \/ CatchCloseRejects \/ CatchStopRejects

Spec == Init /\ [][Next]_vars
SpecNominal == Init /\ [][NextNominal]_vars

(* ------------- the defineComponent steps (lines 573-1197) -------------- *)
\* the two components: with the preferred-court prop (573-943), basic (947-1197)
Components == {"preferredCourt", "basic"}
\* the times a component's selector can report as clicked
RunTimes == {"12:00", "16:00"}
\* identifiers declared in the body of run, outside its try block
RunScope == {"logs", "log", "config", "client", "session", "browser",
             "steps", "$", "props"}
\* const declarations of the try block, visible in that block only
TryScope == {"page", "emailInput", "today", "futureDate", "formattedDate",
             "isWeekend", "weekdayTimes", "weekendTimes", "priorityTimes",
             "debugInfo", "availableSlotsInfo", "clickResult", "successResult"}
\* what the catch block can see: the body of run and its own parameter
CatchScope == RunScope \cup {"error"}
\* the identifiers the catch block reads to build errorResult
CatchReads == {"error", "logs", "clickResult", "formattedDate"}
ReferenceErrorMsg == "ReferenceError: clickResult is not defined"
SlotBookedMsg == "SLOT_ALREADY_BOOKED"
NoPreferredTimesMsg == "No available slots found at preferred times"
RunNoEmailMsg == "Could not find email input field in the form"

\* variables of main that the components do not have
runUnused == << priorityTimes, gridVars, modal, bookingAttempts,
                isSlotAlreadyBooked, poll, slot, targetTime, selectorCalls,
                picked, conflicts >>

RunInit ==
    /\ pc = "run"
    /\ component \in Components
    /\ debug_mode \in (IF component = "basic" THEN {FALSE} ELSE BOOLEAN)
    /\ preferred_court = "1"
    /\ session = "null"
    /\ browser = "null"
    /\ priorityTimes = <<>>
    /\ headers = <<>>
    /\ grid = <<>>
    /\ modal = NoModal
    /\ bookingAttempts = 0
    /\ slot = 0
    /\ targetTime = "none"
    /\ clickResult = NoClickResult
    /\ step = 0
    /\ isSlotAlreadyBooked = FALSE
    /\ poll = 0
    /\ error = "none"
    /\ result = NoResult
    /\ act = "none"
    /\ selectorCalls = 0
    /\ picked = <<>>
    /\ conflicts = 0
    /\ stepsClicked = 0
    /\ sessionsCreated = 0
    /\ browsersConnected = 0
    /\ closeCalls = 0
    /\ stopCalls = 0
    /\ logs = <<>>
    /\ runs = NoRuns
    /\ inflight = {}
    /\ slots = <<>>
    /\ dialog = NoDialog
    /\ clickedSteps = <<>>
    /\ confirmClicks = 0
    /\ boot = NoBoot
    /\ formattedDate = -1
    /\ today = <<>>
    /\ currentUrlAfterSlots = <<>>
    /\ currentUrl = <<>>

\* throw inside the try block of run
RunThrow(msg) ==
    /\ pc' = "runCatch"
    /\ error' = msg

\* session = await client.sessions.create()
RunCreateSession ==
    /\ pc = "run"
    /\ session' = "set"
    /\ sessionsCreated' = sessionsCreated + 1
    /\ pc' = "runConnect"
    /\ act' = "none"
    /\ UNCHANGED << cfgVars, browser, browsersConnected, closeCalls, stopCalls,
                    clickResult, step, stepsClicked, error, result, runUnused >>

\* browser = await connect(...); const [page] = await browser.pages()
RunConnect ==
    /\ pc = "runConnect"
    /\ browser' = "set"
    /\ browsersConnected' = browsersConnected + 1
    /\ pc' = "runLogin"
    /\ act' = "none"
    /\ UNCHANGED << cfgVars, session, sessionsCreated, closeCalls, stopCalls,
                    clickResult, step, stepsClicked, error, result, runUnused >>

\* goto, the login form, the credentials, waitForNavigation
RunLogin ==
    /\ pc = "runLogin"
    /\ \E emailInput \in BOOLEAN :
          IF emailInput
          THEN pc' = "runNavigate" /\ UNCHANGED error
          ELSE RunThrow(RunNoEmailMsg)
    /\ act' = "none"
    /\ UNCHANGED << cfgVars, resVars, clickResult, step, stepsClicked, result,
                    runUnused >>

\* the date, goto of the bookings page, the wait for the slots, debugInfo
RunNavigate ==
    /\ pc = "runNavigate"
    /\ \E slotsShown \in BOOLEAN, noAvailable \in BOOLEAN :
          IF ~slotsShown
          THEN RunThrow(GridTimeoutMsg)
          ELSE /\ pc' = IF noAvailable THEN "runExitClose" ELSE "runSelect"
               /\ UNCHANGED error
    /\ act' = "none"
    /\ UNCHANGED << cfgVars, resVars, clickResult, step, stepsClicked, result,
                    runUnused >>

\* early exit: await browser.close()
RunExitClose ==
    /\ pc = "runExitClose"
    /\ closeCalls' = closeCalls + 1
    /\ pc' = "runExitStop"
    /\ act' = "none"
    /\ UNCHANGED << cfgVars, session, browser, sessionsCreated, browsersConnected,
                    stopCalls, clickResult, step, stepsClicked, error, result,
                    runUnused >>

\* early exit: await client.sessions.stop(session.id); return $.flow.exit(...)
RunExitStop ==
    /\ pc = "runExitStop"
    /\ stopCalls' = stopCalls + 1
    /\ result' = [kind |-> "returned", success |-> FALSE, debug |-> FALSE,
                  error |-> "none", timeBooked |-> "null"]
    /\ pc' = "runDone"
    /\ act' = "none"
    /\ UNCHANGED << cfgVars, session, browser, sessionsCreated, browsersConnected,
                    closeCalls, clickResult, step, stepsClicked, error, runUnused >>

\* const clickResult = await page.evaluate(...): the slot search and its clicks
RunSelectSlot ==
    /\ pc = "runSelect"
    /\ \E found \in BOOLEAN, t \in RunTimes, again \in BOOLEAN :
          IF found
          THEN /\ clickResult' = [NoClickResult EXCEPT !.defined = TRUE,
                                     !.success = TRUE, !.timeBooked = t,
                                     !.requiredSecondClick = again]
               /\ act' = IF again THEN "slotClickAgain" ELSE "slotClick"
               /\ pc' = "runWaitNext"
               /\ UNCHANGED error
          ELSE /\ clickResult' = [NoClickResult EXCEPT !.defined = TRUE]
               /\ act' = "none"
               /\ IF component = "preferredCourt"
                  THEN RunThrow(NoPreferredTimesMsg)
                  ELSE pc' = "runWaitNext" /\ UNCHANGED error
    /\ UNCHANGED << cfgVars, resVars, step, stepsClicked, result, runUnused >>

\* waitForSelector of the action button, then the debug branch
RunWaitNextButton ==
    /\ pc = "runWaitNext"
    /\ \E shown \in BOOLEAN :
          IF ~shown
          THEN RunThrow(ButtonTimeoutMsg) /\ UNCHANGED step
          ELSE /\ pc' = IF debug_mode THEN "runClose" ELSE "runClick"
               /\ step' = 1
               /\ UNCHANGED error
    /\ act' = "none"
    /\ UNCHANGED << cfgVars, resVars, clickResult, stepsClicked, result,
                    runUnused >>

\* one pass of the loop over ['Next', 'Next', 'Confirm booking']
RunClickButton ==
    /\ pc = "runClick"
    /\ \E matches \in BOOLEAN, alreadyBooked \in BOOLEAN, shown \in BOOLEAN :
          IF ~matches
          THEN /\ RunThrow(ClickFailedMsg(step))
               /\ act' = "none"
               /\ UNCHANGED << step, stepsClicked >>
          ELSE /\ act' = IF step = 3 THEN "clickConfirm" ELSE "clickNext"
               /\ stepsClicked' = stepsClicked + 1
               /\ IF step = 3
                  THEN pc' = "runClose" /\ UNCHANGED << step, error >>
                  ELSE IF component = "preferredCourt" /\ alreadyBooked
                       THEN RunThrow(SlotBookedMsg) /\ UNCHANGED step
                       ELSE IF ~shown
                            THEN RunThrow(ButtonTimeoutMsg) /\ UNCHANGED step
                            ELSE /\ step' = step + 1
                                 /\ UNCHANGED << pc, error >>
    /\ UNCHANGED << cfgVars, resVars, clickResult, result, runUnused >>

\* await browser.close(); browser = null
RunCloseBrowser ==
    /\ pc = "runClose"
    /\ closeCalls' = closeCalls + 1
    /\ browser' = "null"
    /\ pc' = "runStop"
    /\ act' = "none"
    /\ UNCHANGED << cfgVars, session, sessionsCreated, browsersConnected,
                    stopCalls, clickResult, step, stepsClicked, error, result,
                    runUnused >>

\* await client.sessions.stop(session.id); session = null; return the result
RunStopSession ==
    /\ pc = "runStop"
    /\ stopCalls' = stopCalls + 1
    /\ session' = "null"
    /\ result' = [kind |-> "returned", success |-> TRUE, debug |-> debug_mode,
                  error |-> "none", timeBooked |-> clickResult.timeBooked]
    /\ pc' = "runDone"
    /\ act' = "none"
    /\ UNCHANGED << cfgVars, browser, sessionsCreated, browsersConnected,
                    closeCalls, clickResult, step, stepsClicked, error, runUnused >>

\* the awaited calls of the try block of run
RunAwaits ==
    {"run", "runConnect", "runLogin", "runNavigate", "runExitClose",
     "runExitStop", "runSelect", "runWaitNext", "runClick", "runClose", "runStop"}

RunOperationRejects ==
    /\ pc \in RunAwaits
    /\ RunThrow(RejectedMsg)
    /\ act' = "none"
    /\ UNCHANGED << cfgVars, resVars, clickResult, step, stepsClicked, result,
                    runUnused >>

\* catch: if (browser) await browser.close()
RunCatchClose ==
    /\ pc = "runCatch"
    /\ closeCalls' = IF browser = "set" THEN closeCalls + 1 ELSE closeCalls
    /\ pc' = "runCatchStop"
    /\ act' = "none"
    /\ UNCHANGED << cfgVars, session, browser, sessionsCreated, browsersConnected,
                    stopCalls, clickResult, step, stepsClicked, error, result,
                    runUnused >>

\* catch: if (session) await client.sessions.stop(session.id)
RunCatchStop ==
    /\ pc = "runCatchStop"
    /\ stopCalls' = IF session = "set" THEN stopCalls + 1 ELSE stopCalls
    /\ pc' = "runCatchResult"
    /\ act' = "none"
    /\ UNCHANGED << cfgVars, session, browser, sessionsCreated, browsersConnected,
                    closeCalls, clickResult, step, stepsClicked, error, result,
                    runUnused >>

\* an await of the catch block rejects: run rejects
RunCatchRejects ==
    /\ \/ pc = "runCatch" /\ browser = "set"
       \/ pc = "runCatchStop" /\ session = "set"
    /\ result' = Rejection
    /\ pc' = "runDone"
    /\ act' = "none"
    /\ UNCHANGED << cfgVars, resVars, clickResult, step, stepsClicked, error,
                    runUnused >>

RunCatchResultInScope ==
    [kind |-> "returned", success |-> FALSE, debug |-> FALSE, error |-> error,
     timeBooked |-> IF clickResult.defined THEN clickResult.timeBooked ELSE "null"]
\* const errorResult = {...}: evaluating it reads the identifiers of CatchReads;
\* one that is not in scope raises a ReferenceError, which leaves run
RunCatchResult ==
    IF CatchReads \subseteq CatchScope
    THEN RunCatchResultInScope
    ELSE [Rejection EXCEPT !.error = ReferenceErrorMsg]

\* catch: $.export("bookingResult", errorResult); return errorResult
RunCatchReturn ==
    /\ pc = "runCatchResult"
    /\ result' = RunCatchResult
    /\ pc' = "runDone"
    /\ act' = "none"
    /\ UNCHANGED << cfgVars, resVars, clickResult, step, stepsClicked, error,
                    runUnused >>

RunNext ==
    \/ RunCreateSession \/ RunConnect \/ RunLogin \/ RunNavigate
    \/ RunExitClose \/ RunExitStop \/ RunSelectSlot \/ RunWaitNextButton
    \/ RunClickButton \/ RunCloseBrowser \/ RunStopSession
    \/ RunOperationRejects \/ RunCatchClose \/ RunCatchStop
    \/ RunCatchRejects \/ RunCatchReturn

SpecRun == RunInit /\ [][RunNext]_vars

(* ---------------- the selector on any grid (lines 261-340) -------------- *)
\* the state of main when the selector of the first attempt starts, for every
\* grid the page can show, cells with the 'disabled' class included
SelectorInit ==
    /\ pc = "select"
    /\ component = "main"
    /\ debug_mode = FALSE
    /\ preferred_court \in PreferredChoices
    /\ session = "set"
    /\ browser = "set"
    /\ priorityTimes \in {weekdayTimes, weekendTimes}
    /\ headers \in HeaderChoices
    /\ grid \in [Cells -> [available : BOOLEAN, disabled : BOOLEAN,
                           attempted : {"absent"}]]
    /\ \E i \in DOMAIN grid : grid[i].available
    /\ modal = NoModal
    /\ bookingAttempts = 1
    /\ slot = 0
    /\ targetTime = "none"
    /\ clickResult = NoClickResult
    /\ step = 0
    /\ isSlotAlreadyBooked = FALSE
    /\ poll = 0
    /\ error = "none"
    /\ result = NoResult
    /\ act = "none"
    /\ selectorCalls = 0
    /\ picked = <<>>
    /\ conflicts = 0
    /\ stepsClicked = 0
    /\ sessionsCreated = 1
    /\ browsersConnected = 1
    /\ closeCalls = 0
    /\ stopCalls = 0
    /\ logs = <<>>
    /\ runs = NoRuns
    /\ inflight = {}
    /\ slots = <<>>
    /\ dialog = NoDialog
    /\ clickedSteps = <<>>
    /\ confirmClicks = 0
    /\ boot = NoBoot
    /\ formattedDate = -1
    /\ today = <<>>
    /\ currentUrlAfterSlots = <<>>
    /\ currentUrl = <<>>

SelectorNext == SelectSlot \/ Settle

SpecSelector == SelectorInit /\ [][SelectorNext]_vars

(* --------- the profile CLI script (src/unnamed/part_002, 1-461) --------- *)
CliNoPreferredTimesMsg == "No available slots found at preferred times"

\* variables of part_001's main that the script does not have
cliUnused == << priorityTimes, gridVars, slot, targetTime, selectorCalls, picked >>
cliLoopVars == << bookingAttempts, isSlotAlreadyBooked >>
cliHist == << conflicts, stepsClicked >>

CliInit ==
    /\ pc = "cli"
    /\ component = "cli"
    /\ debug_mode \in BOOLEAN
    /\ preferred_court = "1"
    /\ session = "null"
    /\ browser = "null"
    /\ priorityTimes = <<>>
    /\ headers = <<>>
    /\ grid = <<>>
    /\ modal = NoModal
    /\ bookingAttempts = 0
    /\ slot = 0
    /\ targetTime = "none"
    /\ clickResult = NoClickResult
    /\ step = 0
    /\ isSlotAlreadyBooked = FALSE
    /\ poll = 0
    /\ error = "none"
    /\ result = NoResult
    /\ act = "none"
    /\ selectorCalls = 0
    /\ picked = <<>>
    /\ conflicts = 0
    /\ stepsClicked = 0
    /\ sessionsCreated = 0
    /\ browsersConnected = 0
    /\ closeCalls = 0
    /\ stopCalls = 0
    /\ logs = <<>>
    /\ runs = NoRuns
    /\ inflight = {}
    /\ slots = <<>>
    /\ dialog = NoDialog
    /\ clickedSteps = <<>>
    /\ confirmClicks = 0
    /\ boot = NoBoot
    /\ formattedDate = -1
    /\ today = <<>>
    /\ currentUrlAfterSlots = <<>>
    /\ currentUrl = <<>>

\* throw inside the try block of the script's main
CliThrow(msg) ==
    /\ pc' = "cliCatch"
    /\ error' = msg
    /\ step' = 0
    /\ poll' = 0

\* session = await client.sessions.create(sessionConfig)
CliCreateSession ==
    /\ pc = "cli"
    /\ session' = "set"
    /\ sessionsCreated' = sessionsCreated + 1
    /\ pc' = "cliConnect"
    /\ act' = "none"
    /\ UNCHANGED << cfgVars, browser, browsersConnected, closeCalls, stopCalls,
                    modal, clickResult, step, poll, cliLoopVars, cliHist, error,
                    result, cliUnused >>

\* browser = await connect(...); browser.pages(); the date and the times
CliConnect ==
    /\ pc = "cliConnect"
    /\ browser' = "set"
    /\ browsersConnected' = browsersConnected + 1
    /\ pc' = "cliLogin"
    /\ act' = "none"
    /\ UNCHANGED << cfgVars, session, sessionsCreated, closeCalls, stopCalls,
                    modal, clickResult, step, poll, cliLoopVars, cliHist, error,
                    result, cliUnused >>

\* handleLoginIfNeeded(page)
CliLogin ==
    /\ pc = "cliLogin"
    /\ \E useProfile \in BOOLEAN, emailInput \in BOOLEAN :
          IF useProfile \/ emailInput
          THEN pc' = "cliNavigate" /\ UNCHANGED << error, step, poll >>
          ELSE CliThrow(RunNoEmailMsg)
    /\ act' = "none"
    /\ UNCHANGED << cfgVars, resVars, modal, clickResult, cliLoopVars, cliHist,
                    result, cliUnused >>

\* goto of the bookings page, the wait for the slots, availableSlotsInfo
CliNavigate ==
    /\ pc = "cliNavigate"
    /\ \E slotsShown \in BOOLEAN, noAvailable \in BOOLEAN :
          IF ~slotsShown
          THEN CliThrow(GridTimeoutMsg)
          ELSE IF noAvailable
               THEN CliThrow(NoSlotsMsg)
               ELSE pc' = "cliSelect" /\ UNCHANGED << error, step, poll >>
    /\ act' = "none"
    /\ UNCHANGED << cfgVars, resVars, modal, clickResult, cliLoopVars, cliHist,
                    result, cliUnused >>

\* clickResult = await page.evaluate(...): the slot search and its clicks
CliSelectSlot ==
    /\ pc = "cliSelect"
    /\ \E found \in BOOLEAN, t \in RunTimes, again \in BOOLEAN :
          IF found
          THEN /\ clickResult' = [NoClickResult EXCEPT !.defined = TRUE,
                                     !.success = TRUE, !.timeBooked = t,
                                     !.requiredSecondClick = again]
               /\ act' = IF again THEN "slotClickAgain" ELSE "slotClick"
               /\ pc' = "cliWaitNext"
               /\ UNCHANGED << error, step, poll >>
          ELSE /\ clickResult' = [NoClickResult EXCEPT !.defined = TRUE]
               /\ act' = "none"
               /\ CliThrow(CliNoPreferredTimesMsg)
    /\ UNCHANGED << cfgVars, resVars, modal, cliLoopVars, cliHist, result,
                    cliUnused >>

\* page.waitForSelector of the action button; the loop variables
CliWaitNextButton ==
    /\ pc = "cliWaitNext"
    /\ \E m \in ModalStates :
          /\ modal' = m
          /\ IF ButtonAppeared(m)
             THEN /\ pc' = "cliLoop"
                  /\ isSlotAlreadyBooked' = FALSE
                  /\ bookingAttempts' = 0
                  /\ UNCHANGED << error, step, poll >>
             ELSE CliThrow(ButtonTimeoutMsg) /\ UNCHANGED cliLoopVars
    /\ act' = "none"
    /\ UNCHANGED << cfgVars, resVars, clickResult, cliHist, result, cliUnused >>

\* while (bookingAttempts < MAX_BOOKING_ATTEMPTS): the statement after the
\* loop is the clean-up of the success path
CliLoopHead ==
    /\ pc = "cliLoop"
    /\ IF bookingAttempts < MAX_BOOKING_ATTEMPTS
       THEN /\ bookingAttempts' = bookingAttempts + 1
            /\ step' = 1
            /\ stepsClicked' = 0
            /\ pc' = "cliWaitButton"
       ELSE /\ pc' = "cliClose"
            /\ UNCHANGED << bookingAttempts, step, stepsClicked >>
    /\ act' = "none"
    /\ UNCHANGED << cfgVars, resVars, modal, clickResult, isSlotAlreadyBooked,
                    poll, conflicts, error, result, cliUnused >>

\* waitForElement at the head of each step
CliWaitButton ==
    /\ pc = "cliWaitButton"
    /\ \E m \in ModalStates :
          /\ modal' = m
          /\ IF ButtonAppeared(m)
             THEN pc' = "cliClick" /\ UNCHANGED << error, step, poll >>
             ELSE CliThrow(NotFoundMsg(step))
    /\ act' = "none"
    /\ UNCHANGED << cfgVars, resVars, clickResult, cliLoopVars, cliHist, result,
                    cliUnused >>

\* the in-page click of the step's button; the debug branch of the last step
CliClickButton ==
    /\ pc = "cliClick"
    /\ \E m \in ModalStates :
          /\ modal' = m
          /\ IF m.button # <<>> /\ Includes(m.button, ButtonTexts[step])
             THEN /\ act' = IF step = 3 THEN "clickConfirm" ELSE "clickNext"
                  /\ stepsClicked' = stepsClicked + 1
                  /\ pc' = IF step < 3 THEN "cliPollNext"
                           ELSE IF debug_mode THEN "cliAfterSteps"
                           ELSE "cliPollConfirm"
                  /\ UNCHANGED << error, step, poll >>
             ELSE /\ CliThrow(ClickFailedMsg(step))
                  /\ act' = "none"
                  /\ UNCHANGED stepsClicked
    /\ UNCHANGED << cfgVars, resVars, clickResult, cliLoopVars, conflicts, result,
                    cliUnused >>

\* waitForModalUpdate(page, {hasModal: true}) after a Next click, and what
\* the step does with the state it returned
CliPollNext ==
    /\ pc = "cliPollNext"
    /\ \E m \in ModalStates :
          /\ modal' = m
          /\ IF poll < maxAttempts /\ ~hasModal(m)
             THEN /\ poll' = poll + 1
                  /\ UNCHANGED << pc, step, isSlotAlreadyBooked, conflicts >>
             ELSE /\ poll' = 0
                  /\ IF isAlreadyBooked(m)
                     THEN /\ isSlotAlreadyBooked' = TRUE
                          /\ conflicts' = conflicts + 1
                          /\ pc' = "cliCancel"
                          /\ UNCHANGED step
                     ELSE /\ step' = step + 1
                          /\ pc' = "cliWaitButton"
                          /\ UNCHANGED << isSlotAlreadyBooked, conflicts >>
    /\ act' = "none"
    /\ UNCHANGED << cfgVars, resVars, clickResult, bookingAttempts, stepsClicked,
                    error, result, cliUnused >>

\* the conflict branch: click Cancel when the document has such a button
CliCancel ==
    /\ pc = "cliCancel"
    /\ \E cancelButton \in BOOLEAN :
          IF cancelButton
          THEN act' = "cancelClick" /\ pc' = "cliPollClose"
          ELSE act' = "none" /\ pc' = "cliAfterSteps"
    /\ UNCHANGED << cfgVars, resVars, modal, clickResult, step, poll, cliLoopVars,
                    cliHist, error, result, cliUnused >>

\* waitForModalUpdate(page, {hasModal: false}) after the Cancel click
CliPollClose ==
    /\ pc = "cliPollClose"
    /\ \E m \in ModalStates :
          /\ modal' = m
          /\ IF poll < maxAttempts /\ hasModal(m)
             THEN /\ hasModal(modal) => m = modal
                  /\ poll' = poll + 1
                  /\ UNCHANGED pc
             ELSE /\ pc' = "cliAfterSteps"
                  /\ poll' = 0
    /\ act' = "none"
    /\ UNCHANGED << cfgVars, resVars, clickResult, step, cliLoopVars, cliHist,
                    error, result, cliUnused >>

\* waitForModalUpdate(page, {hasModal: true}) after the Confirm click
CliPollConfirm ==
    /\ pc = "cliPollConfirm"
    /\ \E m \in ModalStates :
          /\ modal' = m
          /\ IF poll < maxAttempts /\ ~hasModal(m)
             THEN poll' = poll + 1 /\ UNCHANGED pc
             ELSE pc' = "cliAfterSteps" /\ poll' = 0
    /\ act' = "none"
    /\ UNCHANGED << cfgVars, resVars, clickResult, step, cliLoopVars, cliHist,
                    error, result, cliUnused >>

\* after the loop over the steps: continue on conflict, else break
CliAfterSteps ==
    /\ pc = "cliAfterSteps"
    /\ pc' = IF isSlotAlreadyBooked THEN "cliLoop" ELSE "cliClose"
    /\ step' = 0
    /\ act' = "none"
    /\ UNCHANGED << cfgVars, resVars, modal, clickResult, poll, cliLoopVars,
                    cliHist, error, result, cliUnused >>

\* await browser.close(); browser = null
CliCloseBrowser ==
    /\ pc = "cliClose"
    /\ closeCalls' = closeCalls + 1
    /\ browser' = "null"
    /\ modal' = NoModal
    /\ pc' = "cliStop"
    /\ act' = "none"
    /\ UNCHANGED << cfgVars, session, sessionsCreated, browsersConnected,
                    stopCalls, clickResult, step, poll, cliLoopVars, cliHist,
                    error, result, cliUnused >>

\* await client.sessions.stop(session.id); session = null; return success
CliStopSession ==
    /\ pc = "cliStop"
    /\ stopCalls' = stopCalls + 1
    /\ session' = "null"
    /\ result' = [kind |-> "returned", success |-> TRUE, debug |-> FALSE,
                  error |-> "none", timeBooked |-> clickResult.timeBooked]
    /\ pc' = "cliDone"
    /\ act' = "none"
    /\ UNCHANGED << cfgVars, browser, sessionsCreated, browsersConnected,
                    closeCalls, modal, clickResult, step, poll, cliLoopVars,
                    cliHist, error, cliUnused >>

\* catch: if (browser) await browser.close()
CliCatchClose ==
    /\ pc = "cliCatch"
    /\ closeCalls' = IF browser = "set" THEN closeCalls + 1 ELSE closeCalls
    /\ modal' = NoModal
    /\ pc' = "cliCatchStop"
    /\ act' = "none"
    /\ UNCHANGED << cfgVars, session, browser, sessionsCreated, browsersConnected,
                    stopCalls, clickResult, step, poll, cliLoopVars, cliHist,
                    error, result, cliUnused >>

\* catch: if (session) await client.sessions.stop(session.id); return {...}
CliCatchStop ==
    /\ pc = "cliCatchStop"
    /\ stopCalls' = IF session = "set" THEN stopCalls + 1 ELSE stopCalls
    /\ result' = FailureResult
    /\ pc' = "cliDone"
    /\ act' = "none"
    /\ UNCHANGED << cfgVars, session, browser, sessionsCreated, browsersConnected,
                    closeCalls, modal, clickResult, step, poll, cliLoopVars,
                    cliHist, error, cliUnused >>

\* the awaited calls of the try block whose rejection reaches its catch
CliAwaits ==
    {"cli", "cliConnect", "cliLogin", "cliNavigate", "cliSelect", "cliWaitNext",
     "cliClick", "cliModalCatch", "cliConfirmCatch", "cliClose", "cliStop"}

CliOperationRejects ==
    /\ pc \in CliAwaits
    /\ CliThrow(RejectedMsg)
    /\ act' = "none"
    /\ UNCHANGED << cfgVars, resVars, modal, clickResult, cliLoopVars, cliHist,
                    result, cliUnused >>

\* a rejection inside the try block around the modal wait of a Next step
CliModalWaitRejects ==
    /\ pc \in {"cliPollNext", "cliCancel", "cliPollClose"}
    /\ pc' = "cliModalCatch"
    /\ poll' = 0
    /\ act' = "none"
    /\ UNCHANGED << cfgVars, resVars, modal, clickResult, step, cliLoopVars,
                    cliHist, error, result, cliUnused >>

\* catch (modalError) of a Next step
CliModalCatch ==
    /\ pc = "cliModalCatch"
    /\ \E m \in ModalStates :
          /\ modal' = m
          /\ IF m.button # <<>>
             THEN /\ step' = step + 1
                  /\ pc' = "cliWaitButton"
                  /\ UNCHANGED << error, poll >>
             ELSE CliThrow(RejectedMsg)
    /\ act' = "none"
    /\ UNCHANGED << cfgVars, resVars, clickResult, cliLoopVars, cliHist, result,
                    cliUnused >>

CliConfirmWaitRejects ==
    /\ pc = "cliPollConfirm"
    /\ pc' = "cliConfirmCatch"
    /\ poll' = 0
    /\ act' = "none"
    /\ UNCHANGED << cfgVars, resVars, modal, clickResult, step, cliLoopVars,
                    cliHist, error, result, cliUnused >>

\* catch (modalError) of the Confirm step
CliConfirmCatch ==
    /\ pc = "cliConfirmCatch"
    /\ \E m \in ModalStates, bookingSuccessful \in BOOLEAN :
          /\ modal' = m
          /\ IF m.content # "none" /\ bookingSuccessful
             THEN pc' = "cliAfterSteps" /\ UNCHANGED << error, step, poll >>
             ELSE CliThrow(RejectedMsg)
    /\ act' = "none"
    /\ UNCHANGED << cfgVars, resVars, clickResult, cliLoopVars, cliHist, result,
                    cliUnused >>

\* an await of the catch block rejects: main rejects, process.exit(1)
CliCatchRejects ==
    /\ \/ pc = "cliCatch" /\ browser = "set"
       \/ pc = "cliCatchStop" /\ session = "set"
    /\ result' = Rejection
    /\ pc' = "cliDone"
    /\ act' = "none"
    /\ UNCHANGED << cfgVars, resVars, modal, clickResult, step, poll, cliLoopVars,
                    cliHist, error, cliUnused >>

CliNext ==
    \/ CliCreateSession \/ CliConnect \/ CliLogin \/ CliNavigate
    \/ CliSelectSlot \/ CliWaitNextButton \/ CliLoopHead \/ CliWaitButton
    \/ CliClickButton \/ CliPollNext \/ CliCancel \/ CliPollClose
    \/ CliPollConfirm \/ CliAfterSteps \/ CliCloseBrowser \/ CliStopSession
    \/ CliCatchClose \/ CliCatchStop \/ CliOperationRejects
    \/ CliModalWaitRejects \/ CliModalCatch \/ CliConfirmWaitRejects
    \/ CliConfirmCatch \/ CliCatchRejects

SpecCli == CliInit /\ [][CliNext]_vars

(* ------- several calls of main in one process (part_001, 4-11, 117) ------ *)
\* log(message): push onto the module-level array; r is the emitting run
log(r) == Append(logs, r)
\* the session object sessions.create() hands out: a new one for each call
NewSession == 1 + Cardinality({q \in Runs : runs[q].session # 0})
\* the logs field of the object a run returns: the module-level array itself
ResultLogs(r) == logs

\* variables of a single booking flow, not followed here
logsUnused == << pc, debug_mode, preferred_court, component, inflight, slots,
                 dialog, clickedSteps, currentUrl, currentUrlAfterSlots,
                 today, formattedDate, boot, confirmClicks, resVars,
                 priorityTimes, gridVars, modal, bookingAttempts, clickResult,
                 locals, histVars, error, result, act >>

LogsInit ==
    /\ pc = "runs"
    /\ component = "main"
    /\ debug_mode = FALSE
    /\ preferred_court = "1"
    /\ session = "null"
    /\ browser = "null"
    /\ priorityTimes = <<>>
    /\ headers = <<>>
    /\ grid = <<>>
    /\ modal = NoModal
    /\ bookingAttempts = 0
    /\ slot = 0
    /\ targetTime = "none"
    /\ clickResult = NoClickResult
    /\ step = 0
    /\ isSlotAlreadyBooked = FALSE
    /\ poll = 0
    /\ error = "none"
    /\ result = NoResult
    /\ act = "none"
    /\ selectorCalls = 0
    /\ picked = <<>>
    /\ conflicts = 0
    /\ stepsClicked = 0
    /\ sessionsCreated = 0
    /\ browsersConnected = 0
    /\ closeCalls = 0
    /\ stopCalls = 0
    /\ logs = <<>>
    /\ runs = NoRuns
    /\ inflight = {}
    /\ slots = <<>>
    /\ dialog = NoDialog
    /\ clickedSteps = <<>>
    /\ confirmClicks = 0
    /\ boot = NoBoot
    /\ formattedDate = -1
    /\ today = <<>>
    /\ currentUrlAfterSlots = <<>>
    /\ currentUrl = <<>>

\* main is called: the lines logged up to the debug branch
LogStart(r) ==
    /\ runs[r].pc = "idle"
    /\ logs' = log(r)
    /\ \E debug \in BOOLEAN :
          runs' = [runs EXCEPT ![r].pc = IF debug THEN "done" ELSE "create"]
    /\ UNCHANGED logsUnused

\* session = await client.sessions.create(...); log of the session id
LogCreateSession(r) ==
    /\ runs[r].pc = "create"
    /\ logs' = log(r)
    /\ runs' = [runs EXCEPT ![r].pc = "booking", ![r].session = NewSession]
    /\ UNCHANGED logsUnused

\* the booking flow of the run, up to its success or its caught error
LogBooking(r) ==
    /\ runs[r].pc = "booking"
    /\ logs' = log(r)
    /\ runs' = [runs EXCEPT ![r].pc = "cleanup"]
    /\ UNCHANGED logsUnused

\* browser.close, sessions.stop(session.id), return {..., logs: logs}
LogCleanup(r) ==
    /\ runs[r].pc = "cleanup"
    /\ logs' = log(r)
    /\ runs' = [runs EXCEPT ![r].pc = "done", ![r].stopped = TRUE]
    /\ UNCHANGED logsUnused

LogsNext ==
    \E r \in Runs :
       \/ LogStart(r) \/ LogCreateSession(r) \/ LogBooking(r) \/ LogCleanup(r)

SpecLogs == LogsInit /\ [][LogsNext]_vars

(* ------------- the court-released run (src/court-released.js) ----------- *)
\* "badTime": a subject the pattern /(\d{1,2}:\d{2})/ matches with digits that
\* are no time of day
SubjectKinds == {"missing", "notPadel", "unparsable", "badDate", "badTime", "ok"}
\* the subjects for which parseEmailSubject returns booking details
ParsedKinds == {"badTime", "ok"}
BadTime == "99:99"
RelBookedMsg == "Court is already booked for this time slot"
RelNoSlotMsg == "No available slot found for the target time"
\* the two waits raced after the Confirm booking click
RaceWaits == {"waitForNavigation", "waitForFunction"}

relCfg == << debug_mode, preferred_court, component, logs, runs, slots,
            dialog, clickedSteps, currentUrl, currentUrlAfterSlots,
            today, formattedDate, boot, confirmClicks, targetTime >>
\* variables of part_001's main that this run does not have
relUnused == << priorityTimes, gridVars, bookingAttempts, isSlotAlreadyBooked,
                slot, selectorCalls, picked, conflicts >>

ReleasedInit ==
    /\ pc = "relRun"
    /\ component = "courtReleased"
    /\ debug_mode \in BOOLEAN
    /\ preferred_court = "1"
    /\ session = "null"
    /\ browser = "null"
    /\ priorityTimes = <<>>
    /\ headers = <<>>
    /\ grid = <<>>
    /\ modal = NoModal
    /\ bookingAttempts = 0
    /\ slot = 0
    /\ targetTime = "none"
    /\ clickResult = NoClickResult
    /\ step = 0
    /\ isSlotAlreadyBooked = FALSE
    /\ poll = 0
    /\ error = "none"
    /\ result = NoResult
    /\ act = "none"
    /\ selectorCalls = 0
    /\ picked = <<>>
    /\ conflicts = 0
    /\ stepsClicked = 0
    /\ sessionsCreated = 0
    /\ browsersConnected = 0
    /\ closeCalls = 0
    /\ stopCalls = 0
    /\ logs = <<>>
    /\ runs = NoRuns
    /\ inflight = {}
    /\ slots = <<>>
    /\ dialog = NoDialog
    /\ clickedSteps = <<>>
    /\ confirmClicks = 0
    /\ boot = NoBoot
    /\ formattedDate = -1
    /\ today = <<>>
    /\ currentUrlAfterSlots = <<>>
    /\ currentUrl = <<>>

\* throw inside the try block of main
RelThrow(msg) ==
    /\ pc' = "relCatch"
    /\ error' = msg
    /\ step' = 0
    /\ poll' = 0

\* run and parseEmailSubject: the subject decides whether main goes on;
\* then the debug branch at the head of the try block
RelRun ==
    /\ pc = "relRun"
    /\ \E kind \in SubjectKinds, t \in RunTimes, exits \in BOOLEAN :
          IF kind \notin ParsedKinds
          THEN /\ pc' = "relDone"
               /\ result' = IF exits \/ kind = "missing"
                             THEN [NoResult EXCEPT !.kind = "exited"]
                             ELSE Rejection
               /\ UNCHANGED targetTime
          ELSE /\ targetTime' = IF kind = "ok" THEN t ELSE BadTime
               /\ IF debug_mode
                  THEN /\ pc' = "relDone"
                       /\ result' = [kind |-> "returned", success |-> TRUE,
                                     debug |-> TRUE, error |-> "none",
                                     timeBooked |-> "null"]
                  ELSE pc' = "relCreate" /\ UNCHANGED result
    /\ act' = "none"
    /\ UNCHANGED << debug_mode, preferred_court, component, logs, runs, slots,
                    dialog, clickedSteps, currentUrl, currentUrlAfterSlots,
                    today, formattedDate, boot, confirmClicks,
                    resVars, modal, clickResult, step, poll, stepsClicked,
                    error, inflight, relUnused >>

\* session = await client.sessions.create(sessionConfig)
RelCreateSession ==
    /\ pc = "relCreate"
    /\ session' = "set"
    /\ sessionsCreated' = sessionsCreated + 1
    /\ pc' = "relConnect"
    /\ act' = "none"
    /\ UNCHANGED << relCfg, browser, browsersConnected, closeCalls, stopCalls,
                    modal, clickResult, step, poll, stepsClicked, error, result,
                    inflight, relUnused >>

\* browser = await connect(...); const [page] = await browser.pages()
RelConnect ==
    /\ pc = "relConnect"
    /\ browser' = "set"
    /\ browsersConnected' = browsersConnected + 1
    /\ pc' = "relLogin"
    /\ act' = "none"
    /\ UNCHANGED << relCfg, session, sessionsCreated, closeCalls, stopCalls,
                    modal, clickResult, step, poll, stepsClicked, error, result,
                    inflight, relUnused >>

\* handleLoginIfNeeded, goto of the bookings page, the wait for the slots
RelLogin ==
    /\ pc = "relLogin"
    /\ \E useProfile \in BOOLEAN, emailInput \in BOOLEAN, slotsShown \in BOOLEAN :
          IF ~(useProfile \/ emailInput)
          THEN RelThrow(RunNoEmailMsg)
          ELSE IF ~slotsShown
               THEN RelThrow(GridTimeoutMsg)
               ELSE pc' = "relSelect" /\ UNCHANGED << error, step, poll >>
    /\ act' = "none"
    /\ UNCHANGED << relCfg, resVars, modal, clickResult, stepsClicked, result,
                    inflight, relUnused >>

\* clickResult = await page.evaluate(...): find the target slot and click it
RelSelectSlot ==
    /\ pc = "relSelect"
    /\ \E found \in BOOLEAN, again \in BOOLEAN :
          IF found /\ targetTime \in RunTimes
          THEN /\ clickResult' = [NoClickResult EXCEPT !.defined = TRUE,
                                     !.success = TRUE,
                                     !.timeBooked = targetTime,
                                     !.requiredSecondClick = again]
               /\ act' = IF again THEN "slotClickAgain" ELSE "slotClick"
               /\ pc' = "relPollOpen"
               /\ UNCHANGED << error, step, poll >>
          ELSE /\ clickResult' = [NoClickResult EXCEPT !.defined = TRUE]
               /\ act' = "none"
               /\ RelThrow(RelNoSlotMsg)
    /\ UNCHANGED << relCfg, resVars, modal, stepsClicked, result, inflight,
                    relUnused >>

\* waitForModalUpdate(page, {hasModal: true}) after the slot click (step 0) or
\* after a Next click, and the check of the conflict marker
RelPoll ==
    /\ pc \in {"relPollOpen", "relPollNext"}
    /\ \E m \in ModalStates :
          /\ modal' = m
          /\ IF poll < maxAttempts /\ ~hasModal(m)
             THEN /\ poll' = poll + 1
                  /\ UNCHANGED << pc, step, error >>
             ELSE IF isAlreadyBooked(m)
                  THEN RelThrow(RelBookedMsg)
                  ELSE /\ step' = step + 1
                       /\ poll' = 0
                       /\ pc' = "relWaitButton"
                       /\ UNCHANGED error
    /\ act' = "none"
    /\ UNCHANGED << relCfg, resVars, clickResult, stepsClicked, result, inflight,
                    relUnused >>

\* waitForElement at the head of each step
RelWaitButton ==
    /\ pc = "relWaitButton"
    /\ \E m \in ModalStates :
          /\ modal' = m
          /\ IF ButtonAppeared(m)
             THEN pc' = "relClick" /\ UNCHANGED << error, step, poll >>
             ELSE RelThrow(NotFoundMsg(step))
    /\ act' = "none"
    /\ UNCHANGED << relCfg, resVars, clickResult, stepsClicked, result, inflight,
                    relUnused >>

\* the in-page click of the step's button; after Confirm booking both waits
\* of Promise.race are started
RelClickButton ==
    /\ pc = "relClick"
    /\ \E m \in ModalStates :
          /\ modal' = m
          /\ IF m.button # <<>> /\ Includes(m.button, ButtonTexts[step])
             THEN /\ act' = IF step = 3 THEN "clickConfirm" ELSE "clickNext"
                  /\ stepsClicked' = stepsClicked + 1
                  /\ pc' = IF step = 3 THEN "relRace" ELSE "relPollNext"
                  /\ inflight' = IF step = 3 THEN RaceWaits ELSE inflight
                  /\ UNCHANGED << error, step, poll >>
             ELSE /\ RelThrow(ClickFailedMsg(step))
                  /\ act' = "none"
                  /\ UNCHANGED << stepsClicked, inflight >>
    /\ UNCHANGED << relCfg, resVars, clickResult, result, relUnused >>

\* await Promise.race([...]): the first wait to settle decides, the other one
\* stays pending
RelRaceSettles ==
    /\ pc = "relRace"
    /\ \E w \in inflight, fulfilled \in BOOLEAN :
          /\ inflight' = inflight \ {w}
          /\ IF fulfilled
             THEN pc' = "relVerify" /\ UNCHANGED << error, step, poll >>
             ELSE RelThrow(RejectedMsg)
    /\ act' = "none"
    /\ UNCHANGED << relCfg, resVars, modal, clickResult, stepsClicked, result,
                    relUnused >>

\* the wait that lost the race settles on its own
RelLoserSettles ==
    /\ pc \in {"relVerify", "relClose", "relCatch"}
    /\ \E w \in inflight : inflight' = inflight \ {w}
    /\ act' = "none"
    /\ UNCHANGED << pc, relCfg, resVars, modal, clickResult, step, poll,
                    stepsClicked, error, result, relUnused >>

\* const bookingSuccess = await page.evaluate(...)
RelVerify ==
    /\ pc = "relVerify"
    /\ pc' = "relClose"
    /\ step' = 0
    /\ act' = "none"
    /\ UNCHANGED << relCfg, resVars, modal, clickResult, poll, stepsClicked,
                    error, result, inflight, relUnused >>

\* await browser.close(): what is still pending on the page is rejected
RelCloseBrowser ==
    /\ pc = "relClose"
    /\ closeCalls' = closeCalls + 1
    /\ inflight' = {}
    /\ modal' = NoModal
    /\ pc' = "relStop"
    /\ act' = "none"
    /\ UNCHANGED << relCfg, session, browser, sessionsCreated, browsersConnected,
                    stopCalls, clickResult, step, poll, stepsClicked, error,
                    result, relUnused >>

\* await client.sessions.stop(session.id); return success
RelStopSession ==
    /\ pc = "relStop"
    /\ stopCalls' = stopCalls + 1
    /\ result' = [kind |-> "returned", success |-> TRUE, debug |-> FALSE,
                  error |-> "none", timeBooked |-> clickResult.timeBooked]
    /\ pc' = "relDone"
    /\ act' = "none"
    /\ UNCHANGED << relCfg, session, browser, sessionsCreated, browsersConnected,
                    closeCalls, modal, clickResult, step, poll, stepsClicked,
                    error, inflight, relUnused >>

\* the awaited calls of the try block
RelAwaits ==
    {"relCreate", "relConnect", "relLogin", "relSelect", "relPollOpen",
     "relPollNext", "relClick", "relVerify", "relClose", "relStop"}

RelOperationRejects ==
    /\ pc \in RelAwaits
    /\ RelThrow(RejectedMsg)
    /\ act' = "none"
    /\ UNCHANGED << relCfg, resVars, modal, clickResult, stepsClicked, result,
                    inflight, relUnused >>

\* catch: if (browser) await browser.close()
RelCatchClose ==
    /\ pc = "relCatch"
    /\ closeCalls' = IF browser = "set" THEN closeCalls + 1 ELSE closeCalls
    /\ inflight' = {}
    /\ modal' = NoModal
    /\ pc' = "relCatchStop"
    /\ act' = "none"
    /\ UNCHANGED << relCfg, session, browser, sessionsCreated, browsersConnected,
                    stopCalls, clickResult, step, poll, stepsClicked, error,
                    result, relUnused >>

\* catch: if (session) await client.sessions.stop(session.id); return {...}
RelCatchStop ==
    /\ pc = "relCatchStop"
    /\ stopCalls' = IF session = "set" THEN stopCalls + 1 ELSE stopCalls
    /\ result' = FailureResult
    /\ pc' = "relDone"
    /\ act' = "none"
    /\ UNCHANGED << relCfg, session, browser, sessionsCreated, browsersConnected,
                    closeCalls, modal, clickResult, step, poll, stepsClicked,
                    error, inflight, relUnused >>

\* an await of the catch block rejects: main rejects
RelCatchRejects ==
    /\ \/ pc = "relCatch" /\ browser = "set"
       \/ pc = "relCatchStop" /\ session = "set"
    /\ result' = Rejection
    /\ pc' = "relDone"
    /\ act' = "none"
    /\ UNCHANGED << relCfg, resVars, modal, clickResult, step, poll, stepsClicked,
                    error, inflight, relUnused >>

ReleasedNext ==
    \/ RelRun \/ RelCreateSession \/ RelConnect \/ RelLogin \/ RelSelectSlot
    \/ RelPoll \/ RelWaitButton \/ RelClickButton \/ RelRaceSettles
    \/ RelLoserSettles \/ RelVerify \/ RelCloseBrowser \/ RelStopSession
    \/ RelOperationRejects \/ RelCatchClose \/ RelCatchStop \/ RelCatchRejects

SpecReleased == ReleasedInit /\ [][ReleasedNext]_vars

(* ---------- two reads of the available slots (part_001 277-289) --------- *)
\* the page between two sittings of the selector: a cell that is not
\* available carries no mark, an available one may carry any
ReaderCells ==
    [available : {FALSE}, disabled : {FALSE}, attempted : {"absent"}]
        \cup [available : {TRUE}, disabled : {FALSE},
              attempted : {"absent", "false", "true"}]

ReaderInit ==
    /\ pc = "read"
    /\ component = "main"
    /\ debug_mode = FALSE
    /\ preferred_court = "1"
    /\ session = "set"
    /\ browser = "set"
    /\ priorityTimes = weekdayTimes
    /\ headers \in HeaderChoices
    /\ grid \in [Cells -> ReaderCells]
    /\ modal = NoModal
    /\ bookingAttempts = 1
    /\ slot = 0
    /\ targetTime = "none"
    /\ clickResult = NoClickResult
    /\ step = 0
    /\ isSlotAlreadyBooked = FALSE
    /\ poll = 0
    /\ error = "none"
    /\ result = NoResult
    /\ act = "none"
    /\ selectorCalls = 0
    /\ picked = <<>>
    /\ conflicts = 0
    /\ stepsClicked = 0
    /\ sessionsCreated = 1
    /\ browsersConnected = 1
    /\ closeCalls = 0
    /\ stopCalls = 0
    /\ logs = <<>>
    /\ runs = NoRuns
    /\ inflight = {}
    /\ slots = <<>>
    /\ dialog = NoDialog
    /\ clickedSteps = <<>>
    /\ confirmClicks = 0
    /\ boot = NoBoot
    /\ formattedDate = -1
    /\ today = <<>>
    /\ currentUrlAfterSlots = <<>>
    /\ currentUrl = <<>>

\* one call of getAvailableSlots(): the filter writes the attribute on the
\* cells that lack it and returns the kept cells
ReadAvailable ==
    /\ pc \in {"read", "readAgain"}
    /\ slots' = getAvailableSlots(grid)
    /\ grid' = MarkUnset(grid)
    /\ pc' = IF pc = "read" THEN "readAgain" ELSE "readDone"
    /\ UNCHANGED << debug_mode, preferred_court, component, logs, runs, inflight,
                    dialog, clickedSteps, currentUrl, currentUrlAfterSlots,
                    today, formattedDate, boot, confirmClicks,
                    resVars, priorityTimes, headers, modal, bookingAttempts,
                    clickResult, locals, histVars, error, result, act >>

ReaderNext == ReadAvailable

SpecReader == ReaderInit /\ [][ReaderNext]_vars

(* ------- the three dialog steps against a dialog that re-renders -------- *)
(* The for loop of main (part_001 358-468) run against a page whose dialog  *)
(* shows one step at a time, carries that step's label on the one primary   *)
(* action button, and moves to the next step some time after a click.       *)
\* the dialog closes after the third step
DialogSteps == Len(ButtonTexts) + 1
\* while the dialog is being redrawn its content is there without the button
DialogModal(d) ==
    IF d.shown \in 1..Len(ButtonTexts)
    THEN [content |-> "plain",
          button |-> IF d.busy THEN <<>> ELSE ButtonTexts[d.shown]]
    ELSE NoModal

dlgUnused == << debug_mode, preferred_court, component, logs, runs, inflight,
                slots, currentUrl, currentUrlAfterSlots, today,
                formattedDate, boot, confirmClicks,
                resVars, priorityTimes,
                gridVars, bookingAttempts, slot,
                targetTime, clickResult, isSlotAlreadyBooked, result,
                selectorCalls, picked, conflicts >>

DialogInit ==
    /\ pc = "dlgWait"
    /\ component = "main"
    /\ debug_mode = FALSE
    /\ preferred_court = "1"
    /\ session = "set"
    /\ browser = "set"
    /\ priorityTimes = weekdayTimes
    /\ headers = <<>>
    /\ grid = <<>>
    /\ dialog = [shown |-> 1, queued |-> 0, busy |-> FALSE]
    /\ modal = DialogModal(dialog)
    /\ bookingAttempts = 1
    /\ slot = 0
    /\ targetTime = "none"
    /\ clickResult = [NoClickResult EXCEPT !.defined = TRUE, !.success = TRUE]
    /\ step = 1
    /\ isSlotAlreadyBooked = FALSE
    /\ poll = 0
    /\ error = "none"
    /\ result = NoResult
    /\ act = "none"
    /\ selectorCalls = 1
    /\ picked = <<>>
    /\ conflicts = 0
    /\ stepsClicked = 0
    /\ sessionsCreated = 1
    /\ browsersConnected = 1
    /\ closeCalls = 0
    /\ stopCalls = 0
    /\ logs = <<>>
    /\ runs = NoRuns
    /\ inflight = {}
    /\ slots = <<>>
    /\ clickedSteps = <<>>
    /\ confirmClicks = 0
    /\ boot = NoBoot
    /\ formattedDate = -1
    /\ today = <<>>
    /\ currentUrlAfterSlots = <<>>
    /\ currentUrl = <<>>

DlgThrow(msg) ==
    /\ pc' = "dlgCatch"
    /\ error' = msg
    /\ step' = 0
    /\ poll' = 0

\* the page: a click that was taken moves the dialog on one step, at once
\* or after a while in which the button is not drawn
DlgRerender ==
    /\ pc \in {"dlgWait", "dlgClick", "dlgPollNext", "dlgPollConfirm"}
    /\ dialog.queued > 0
    /\ \/ /\ ~dialog.busy
          /\ dialog' = [dialog EXCEPT !.busy = TRUE]
       \/ dialog' = [shown |-> IF dialog.shown < DialogSteps THEN dialog.shown + 1
                               ELSE dialog.shown,
                     queued |-> dialog.queued - 1,
                     busy |-> FALSE]
    /\ UNCHANGED << pc, modal, step, poll, error, act, stepsClicked,
                    clickedSteps, dlgUnused >>

\* waitForElement at the head of each step
DlgWaitButton ==
    /\ pc = "dlgWait"
    /\ modal' = DialogModal(dialog)
    /\ IF ButtonAppeared(modal')
       THEN pc' = "dlgClick" /\ UNCHANGED << error, step, poll >>
       ELSE DlgThrow(NotFoundMsg(step))
    /\ act' = "none"
    /\ UNCHANGED << stepsClicked, dialog, clickedSteps, dlgUnused >>

\* the in-page click of the step's button; the page takes the click, or
\* drops it when it is still working on an earlier one
DlgClickButton ==
    /\ pc = "dlgClick"
    /\ modal' = DialogModal(dialog)
    /\ IF modal'.button # <<>> /\ Includes(modal'.button, ButtonTexts[step])
       THEN /\ act' = IF step = 3 THEN "clickConfirm" ELSE "clickNext"
            /\ stepsClicked' = stepsClicked + 1
            /\ clickedSteps' = Append(clickedSteps, dialog.shown)
            /\ \E taken \in BOOLEAN :
                  /\ dialog.queued = 0 => taken
                  /\ dialog' = [dialog EXCEPT !.queued = IF taken THEN @ + 1 ELSE @]
            /\ pc' = IF step = 3 THEN "dlgPollConfirm" ELSE "dlgPollNext"
            /\ UNCHANGED << error, step, poll >>
       ELSE /\ DlgThrow(ClickFailedMsg(step))
            /\ act' = "none"
            /\ UNCHANGED << stepsClicked, clickedSteps, dialog >>
    /\ UNCHANGED dlgUnused

\* waitForModalUpdate(page, {hasModal: true}) after a Next click; this
\* dialog never shows the conflict marker
DlgPollNext ==
    /\ pc = "dlgPollNext"
    /\ modal' = DialogModal(dialog)
    /\ IF poll < maxAttempts /\ ~hasModal(modal')
       THEN poll' = poll + 1 /\ UNCHANGED << pc, step >>
       ELSE /\ step' = step + 1
            /\ pc' = "dlgWait"
            /\ poll' = 0
    /\ act' = "none"
    /\ UNCHANGED << error, stepsClicked, dialog, clickedSteps, dlgUnused >>

\* waitForModalUpdate(page, {hasModal: true}) after the Confirm click
DlgPollConfirm ==
    /\ pc = "dlgPollConfirm"
    /\ modal' = DialogModal(dialog)
    /\ IF poll < maxAttempts /\ ~hasModal(modal')
       THEN poll' = poll + 1 /\ UNCHANGED << pc, step >>
       ELSE /\ pc' = "dlgDone"
            /\ step' = 0
            /\ poll' = 0
    /\ act' = "none"
    /\ UNCHANGED << error, stepsClicked, dialog, clickedSteps, dlgUnused >>

DialogNext ==
    \/ DlgRerender \/ DlgWaitButton \/ DlgClickButton \/ DlgPollNext
    \/ DlgPollConfirm

SpecDialog == DialogInit /\ [][DialogNext]_vars

(* ------------------------------- claims -------------------------------- *)
\* what the claims mean by an available, not yet attempted slot at time t
Untried(g, i) == g[i].available /\ g[i].attempted # "true" /\ TextOf(i) # <<>>
Candidates(g, t) == {i \in DOMAIN g : Untried(g, i) /\ Includes(TextOf(i), <<t>>)}
NoCandidate(g, times) == \A k \in 1..Len(times) : Candidates(g, times[k]) = {}
\* a step in which the in-page selector ran
SelectorRan == pc = "select" /\ selectorCalls' = selectorCalls + 1
LastPicked == picked[Len(picked)]

\* C1: in one run the selector runs at most 3 times, at most 3 slots are
\* selected and clicked, and at most 3 attempts are started, whatever the page
\* shows and however many conflicts occur.
C1_RetryBound ==
    /\ bookingAttempts <= 3
    /\ selectorCalls <= 3
    /\ Len(picked) <= 3

\* three attempts were made and conflicted, and the grid still has an untried
\* slot at a priority time: the bound, not the grid, ends the run
C1_Witness ==
    /\ pc = "catch"
    /\ error = ExhaustedMsg
    /\ Len(picked) = 3
    /\ conflicts = 3
    /\ ~NoCandidate(grid, priorityTimes)

\* C2: when the selector runs on a grid that has an available untried slot at
\* some priority time, it clicks a slot that is available and untried and whose
\* time is the earliest priority time having such a slot.
C2_EarliestPriorityTime ==
    [][ (SelectorRan /\ ~NoCandidate(grid, priorityTimes)) =>
           /\ act' = "slotClick"
           /\ Untried(grid, slot')
           /\ \E k \in 1..Len(priorityTimes) :
                 /\ slot' \in Candidates(grid, priorityTimes[k])
                 /\ targetTime' = priorityTimes[k]
                 /\ \A j \in 1..(k - 1) : Candidates(grid, priorityTimes[j]) = {}
      ]_vars

\* the slot just clicked is not on the preferred court although an untried
\* slot of a later priority time is, and it is not the first cell of the grid
C2_Witness ==
    /\ pc = "settle"
    /\ ~getCourtInfo(slot, headers, preferred_court).isPreferred
    /\ \E j \in DOMAIN grid :
          /\ Untried(grid, j)
          /\ j < slot
          /\ ~Includes(TextOf(j), <<targetTime>>)
          /\ getCourtInfo(j, headers, preferred_court).isPreferred

\* the court id the claim speaks of: the number in the column heading
CourtIdOf(i, hdrs) == CourtName(i, hdrs)[Len(CourtName(i, hdrs))]
FirstOf(S) == CHOOSE i \in S : \A j \in S : i <= j

\* C3 as stated: among the untried slots at the chosen time, the one slot on
\* the court whose id equals preferred_court is clicked, and the first in grid
\* order when none is on that court, for any courts and any preferred id.
C3_AnyCourts ==
    [][ (SelectorRan /\ act' = "slotClick") =>
           LET S == Candidates(grid, targetTime')
               P == {i \in S : CourtIdOf(i, headers) = preferred_court}
           IN  /\ Cardinality(P) = 1 => slot' \in P
               /\ P = {} => slot' = FirstOf(S)
      ]_vars

\* C3 amended: the same, with a slot's court id taken to be "1" when its
\* column heading contains 'Court 1' and "2" otherwise.
C3_TwoCourts ==
    [][ (SelectorRan /\ act' = "slotClick") =>
           LET S == Candidates(grid, targetTime')
               P == {i \in S :
                       (IF Includes(CourtName(i, headers), Court1) THEN "1" ELSE "2")
                          = preferred_court}
           IN  /\ Cardinality(P) = 1 => slot' \in P
               /\ P = {} => slot' = FirstOf(S)
      ]_vars

\* the clicked slot is on the preferred court and an untried slot of the same
\* time on the other court comes before it in the grid
C3_Witness ==
    /\ pc = "settle"
    /\ getCourtInfo(slot, headers, preferred_court).isPreferred
    /\ \E j \in DOMAIN grid :
          /\ j < slot
          /\ Untried(grid, j)
          /\ Includes(TextOf(j), <<targetTime>>)
          /\ ~getCourtInfo(j, headers, preferred_court).isPreferred

\* C4: a slot selected in an earlier attempt of the run is never selected
\* again by a later attempt, also when the grid is re-rendered in between.
C4_NeverReselected ==
    \A i, j \in 1..Len(picked) : i # j => picked[i] # picked[j]

\* C5: when an attempt conflicted and a later attempt clicked Next, Next and
\* Confirm booking without a conflict and left the loop over the steps, the
\* run goes on to return success=true, and timeBooked is the time of the slot
\* selected in that later attempt.
C5_SuccessAfterConflict ==
    [][ (pc \in {"closeBrowser", "stopSession"} /\ conflicts >= 1
                                                /\ stepsClicked = 3) =>
           /\ pc' \in {"stopSession", "done"}
           /\ pc' = "done" =>
                 /\ result'.kind = "returned"
                 /\ result'.success
                 /\ <<result'.timeBooked>> = TextOf(LastPicked)
      ]_vars

\* C6: when all 3 attempts end in Conflict the run returns success=false with
\* the exhaustion error and does not report success.
C6_ExhaustedFails ==
    (pc = "done" /\ conflicts = 3 /\ error = ExhaustedMsg) =>
        /\ result.kind = "returned"
        /\ ~result.success
        /\ result.error = ExhaustedMsg

NoSlotErrors == {NoSlotsMsg, NoMoreSlotsMsg}
\* a step in which the code at position p ran to its end without a rejection
Ended(p) == pc = p /\ pc' # pc /\ error' # RejectedMsg

\* C7: when no available untried slot exists at any priority time, at page
\* load or when the selector runs, the run stops: nothing is clicked in that
\* attempt, no further attempt or selector run is started, and the run returns
\* success=false.
C7_NoSlotStops ==
    [][ /\ (SelectorRan /\ NoCandidate(grid, priorityTimes)) =>
              /\ pc' = "catch"
              /\ error' = NoMoreSlotsMsg
              /\ act' = "none"
              /\ picked' = picked
        /\ (Ended("readSlots") /\ \A i \in DOMAIN grid : ~grid[i].available) =>
              /\ pc' = "catch"
              /\ error' = NoSlotsMsg
              /\ act' = "none"
        /\ error \in NoSlotErrors =>
              /\ act' = "none"
              /\ bookingAttempts' = bookingAttempts
              /\ selectorCalls' = selectorCalls
              /\ picked' = picked
              /\ stepsClicked' = 0
              /\ pc' \in {"catch", "catchStop", "done"}
              /\ pc' = "done" =>
                    /\ result'.kind = "returned"
                    /\ ~result'.success
                    /\ result'.error = error
      ]_vars

ButtonMissingErrors == {ButtonTimeoutMsg, NotFoundMsg(1), NotFoundMsg(3)}

\* C8: when the action button does not show within the timeout of a wait
\* (after the slot click or at the head of a step), the run returns
\* success=false with an error naming the button or the step, and no dialog
\* button is clicked after the timeout.
C8_ButtonTimeoutFails ==
    [][ /\ (Ended("waitNext") /\ modal'.button = <<>>) =>
              pc' = "catch" /\ error' = ButtonTimeoutMsg
        /\ (Ended("waitButton") /\ modal'.button = <<>>) =>
              pc' = "catch" /\ error' = NotFoundMsg(step)
        /\ error \in ButtonMissingErrors =>
              /\ act' = "none"
              /\ stepsClicked' = stepsClicked
              /\ pc' \in {"catch", "catchStop", "done"}
              /\ pc' = "done" =>
                    /\ result'.kind = "returned"
                    /\ ~result'.success
                    /\ result'.error = error
      ]_vars

\* C9: when a session was created, on every exit of the run browser.close
\* (if a browser was connected) and sessions.stop have been called.
C9_AlwaysReleased ==
    (pc = "done" /\ sessionsCreated > 0) =>
        /\ stopCalls >= 1
        /\ browsersConnected > 0 => closeCalls >= 1

\* C10: the run never rejects: it always ends by returning an object, with
\* success=false and an error string when something failed.
C10_NeverRejects ==
    pc = "done" =>
        /\ result.kind = "returned"
        /\ result.success \/ result.error # "none"

\* C11: when an operation inside the try block of a component's run fails,
\* run returns a result with success=false and the error's message instead of
\* throwing.
C11_RunReturnsFailure ==
    (pc = "runDone" /\ error # "none") =>
        /\ result.kind = "returned"
        /\ ~result.success
        /\ result.error = error

\* C12: at most one slot is pending confirmation: a slot of a later attempt
\* is clicked only when the dialog of the previous slot is closed, as far as
\* the run has observed it.
C12_OneSlotPending ==
    [][ (SelectorRan /\ act' = "slotClick" /\ picked # <<>>) => ~hasModal(modal)
      ]_vars

\* C13: the cells treated as bookable are those with the 'available' class and
\* without the 'disabled' class: the cell the selector clicks is available and
\* not disabled.
C13_NeverDisabled ==
    [][ (SelectorRan /\ act' = "slotClick") =>
           /\ grid[slot'].available
           /\ ~grid[slot'].disabled
      ]_vars

\* C14: in the profile CLI script with debug mode on, 'Confirm booking' is
\* never clicked, and a run that reaches the last step reports success.
C14_DebugNeverConfirms ==
    (component = "cli" /\ debug_mode) => act # "clickConfirm"

\* C15: with debug_mode true, main returns success=true with debug=true and
\* creates no session, connects no browser, and performs no page operation
\* or click.
C15_DebugTouchesNothing ==
    (component = "main" /\ debug_mode) =>
        /\ pc \in {"start", "done"}
        /\ sessionsCreated = 0 /\ browsersConnected = 0
        /\ closeCalls = 0 /\ stopCalls = 0
        /\ session = "null" /\ browser = "null"
        /\ act = "none" /\ selectorCalls = 0 /\ picked = <<>> /\ stepsClicked = 0
        /\ grid = <<>> /\ modal = NoModal
        /\ pc = "done" =>
              /\ result.kind = "returned"
              /\ result.success
              /\ result.debug

\* a debug run has returned
C15_Witness ==
    /\ component = "main"
    /\ debug_mode
    /\ pc = "done"
    /\ result.kind = "returned"
    /\ result.debug

\* C16: runs of main in one process are independent: each run that created a
\* session has its own and has stopped it when it returns, and the logs in the
\* result of a run hold only lines emitted by that run.
C16_RunsIndependent ==
    \A r \in Runs :
       runs[r].pc = "done" =>
          /\ runs[r].session # 0 =>
                /\ runs[r].stopped
                /\ \A q \in Runs \ {r} : runs[q].session # runs[r].session
          /\ \A i \in DOMAIN ResultLogs(r) : ResultLogs(r)[i] = r

\* C17: within one booking run at most one page operation is in flight at any
\* time: none is started while another has not settled.
C17_OneInFlight == Cardinality(inflight) <= 1

\* C18: an error raised while polling the modal after a Next or a Confirm
\* booking click is not swallowed: its catch block rethrows it, so the run
\* leaves the attempt loop for the outer catch with that error.
C18_ErrorsAbort ==
    [][ (pc \in {"modalCatch", "confirmCatch"}) => (pc' = "catch" /\ error' = RejectedMsg) ]_vars

\* every awaited operation eventually settles, so a step that can be taken is
\* eventually taken
FairSpec == Spec /\ WF_vars(Next)

\* C19: every run of main terminates: whatever the page does, the run
\* eventually returns a result.
C19_Terminates == <>(pc = "done" /\ result.kind = "returned")

\* C20: reading the available untried slots a second time, with no page
\* change and no selection in between, returns the same slots in the same
\* grid order as the first read.
C20_ReadTwice == [][ (pc = "readAgain") => slots' = slots ]_vars

\* both reads done on a grid where the first read had marks to write and
\* cells to leave out
C20_Witness ==
    /\ pc = "readDone"
    /\ Len(slots) >= 2
    /\ \E i \in DOMAIN grid : grid[i].attempted = "true"

\* C21: after a Next click, waitForModalUpdate(page, {hasModal: true}) returns
\* before its poll budget is used up only on a poll that sees the conflict
\* marker or the primary action button.
C21_ReturnsOnMarkerOrButton ==
    [][ (pc = "pollNext" /\ poll < maxAttempts /\ pc' \in {"cancel", "waitButton"})
           => (isAlreadyBooked(modal') \/ hasNextButton(modal')) ]_vars

\* C22: within one confirmation flow each click lands on a different dialog
\* step: the button of one step is never clicked twice, however slowly the
\* dialog re-renders.
C22_EachStepOnce ==
    \A i, j \in DOMAIN clickedSteps : i # j => clickedSteps[i] # clickedSteps[j]

\* C23: once the conflict marker has been observed after a Next click, the
\* attempt ends as a conflict: no further Next or Confirm booking click is
\* issued in that attempt, and the loop goes on to its next round whether or
\* not Cancel was found and whether or not the dialog was seen to close.
C23_ConflictEndsAttempt ==
    [][ isSlotAlreadyBooked =>
           /\ act' \notin {"clickNext", "clickConfirm"}
           /\ pc = "afterSteps" => pc' = "loop" ]_vars

\* C24: a non-debug run returns success=true only if in its last attempt
\* Next, Next and Confirm booking were clicked, in that order, with no
\* conflict marker observed after either Next; and Confirm booking is
\* clicked at most once in a run.
C24_SuccessMeansThreeSteps ==
    [][ /\ (pc = "afterSteps" /\ pc' = "closeBrowser")
              => (~isSlotAlreadyBooked /\ stepsClicked = 3)
        /\ (result'.kind = "returned" /\ result'.success /\ ~result'.debug)
              => (stepsClicked' = 3 /\ confirmClicks' = 1)
        /\ confirmClicks' <= 1 ]_vars

\* C25: with debug mode off the profile CLI script returns success=true only
\* after an attempt in which Confirm booking was clicked and no conflict was
\* detected; a run whose attempts all end in a conflict returns success=false.
C25_CliSuccessMeansConfirmed ==
    (pc = "cliDone" /\ ~debug_mode /\ result.kind = "returned" /\ result.success)
        => (stepsClicked = 3 /\ ~isSlotAlreadyBooked)

\* C26: main does not go on to its success return ("Booking confirmed,
\* cleaning up...") when the dialog read after the Confirm booking click
\* shows the conflict marker.
C26_NoSuccessOnMarkerAfterConfirm ==
    [][ (pc = "afterSteps" /\ pc' = "closeBrowser" /\ stepsClicked = 3)
           => ~isAlreadyBooked(modal) ]_vars

C28_SecondClickIffNoButton ==
    [][ /\ act' = "slotClick" =>
              (pc = "select" /\ pc' = "settle" /\ selectorCalls' = bookingAttempts)
        /\ act' = "slotClickAgain" => (pc = "settle" /\ pc' = "waitNext")
        /\ Ended("settle") =>
              /\ (act' = "slotClickAgain") <=> (modal'.button = <<>>)
              /\ clickResult'.requiredSecondClick <=> (act' = "slotClickAgain") ]_vars

\* the button was absent after the settle interval and the slot was clicked
\* again
C28_Witness ==
    /\ pc = "waitNext"
    /\ act = "slotClickAgain"
    /\ clickResult.requiredSecondClick
    /\ modal.button = <<>>
    /\ bookingAttempts = 2

\* C29: every slot that main clicks carries data-booking-attempted='true' at
\* the click, for the first click and for the second one, whatever the click
\* and the booking lead to.
C29_MarkedBeforeClick ==
    [][ /\ act' = "slotClick" => grid'[slot'].attempted = "true"
        /\ act' = "slotClickAgain" =>
              (grid[slot].attempted = "true" /\ grid' = grid) ]_vars

\* a second attempt has marked and clicked another slot
C29_Witness ==
    /\ pc = "settle"
    /\ act = "slotClick"
    /\ bookingAttempts = 2
    /\ Len(picked) = 2
    /\ picked[1] # picked[2]
    /\ grid[slot].attempted = "true"

\* C30: when main returns a failure after at least one slot has been
\* clicked, the result's timeBooked is the time of the slot clicked last.
C30_FailureCarriesLastTime ==
    (pc = "done" /\ result.kind = "returned" /\ ~result.success /\ picked # <<>>)
        => << result.timeBooked >> = TextOf(LastPicked)

\* C31: no slot is read, selected or clicked unless the page URL contained the
\* padel bookings base URL right after navigation and again after the slots
\* loaded; a run that finds another URL at either read returns success=false
\* with the navigation error.
C31_UrlCheckedBeforeSlots ==
    /\ (pc \in {"readSlots", "loop"} \/ bookingAttempts > 0 \/ selectorCalls > 0
           \/ picked # <<>>)
          => (Includes(currentUrl, BOOKINGS_URL)
                 /\ Includes(currentUrlAfterSlots, BOOKINGS_URL))
    /\ (pc = "done" /\ currentUrl # <<>> /\ ~Includes(currentUrl, BOOKINGS_URL))
          => (result.kind = "returned" /\ ~result.success
                 /\ result.error = NavFailedMsg)
    /\ (pc = "done" /\ currentUrlAfterSlots # <<>>
           /\ ~Includes(currentUrlAfterSlots, BOOKINGS_URL))
          => (result.kind = "returned" /\ ~result.success
                 /\ result.error = NavFailedAfterMsg)

\* a step of one of the three modal waits of main that is not a rejection
WaitStep ==
    /\ pc \in {"pollNext", "pollClose", "pollConfirm"}
    /\ pc' \notin {"modalCatch", "confirmCatch", "catch"}

\* C32: waitForModalUpdate reads the modal at most 20 times in its loop and
\* once more after it, and when the expected state was never seen it returns
\* the state of that final read instead of throwing.
C32_BoundedPollReturnsLast ==
    [][ WaitStep =>
           /\ poll <= 20
           /\ poll' <= 20
           /\ poll = 20 =>
                 /\ pc' # pc
                 /\ poll' = 0
                 /\ pc = "pollNext" => (pc' = "cancel" <=> isAlreadyBooked(modal'))
                 /\ pc = "pollNext" => (pc' = "waitButton" <=> ~isAlreadyBooked(modal')) ]_vars

\* the wait after the second Next click has read the page 20 times in its
\* loop without seeing a dialog; its final read comes next
C32_Witness ==
    /\ pc = "pollNext"
    /\ step = 2
    /\ poll = 20
    /\ ~hasModal(modal)

\* C38: every modal state waitForModalUpdate produces has hasModal true when
\* hasNextButton is true; so with expected state {hasModal: true} a return
\* from inside the loop goes through the first check, never through the
\* later "next button found" check.
C38_FirstCheckReturns ==
    [][ (pc \in {"pollNext", "pollConfirm"} /\ poll < maxAttempts /\ pc' # pc
            /\ pc' \notin {"modalCatch", "confirmCatch", "catch"})
           => /\ WhichCheck(modal', TRUE) = "hasModal"
              /\ hasNextButton(modal') => hasModal(modal') ]_vars

\* the wait after the first Next click returned from inside its loop on a
\* read that saw the button without any .Modal-content
C38_Witness ==
    /\ pc = "waitButton"
    /\ step = 2
    /\ stepsClicked = 1
    /\ modal.content = "none"
    /\ modal.button # <<>>

\* C33: for the session a run created, browser.close and sessions.stop are
\* each invoked at most once, on the success path and on every failure path.
C33_ReleasedAtMostOnce ==
    /\ closeCalls <= 1
    /\ stopCalls <= 1

(* ---------------- the target date of main (part_001 194-206) ----------- *)
\* An instant is a number of hours counted from a Sunday 00:00 UTC; the host's
\* clock shows it shifted by the host's time-zone offset (whole hours, kept
\* the same over the fourteen days).
DAYS_AHEAD == 14
\* bounds of the instants and offsets explored
NumStartDays == 7
MaxOffset == 2

StartInstants == (24 * 1) .. (24 * (NumStartDays + 1) - 1)
Offsets == (0 - MaxOffset) .. MaxOffset

\* futureDate.setDate(today.getDate() + 14): the same local time of day,
\* fourteen local days later
setDate(t) == t + 24 * DAYS_AHEAD
\* futureDate.toISOString().split('T')[0]: the calendar day in UTC
toISODate(t) == t \div 24
\* futureDate.getDay(): the weekday on the host's clock, 0 = Sunday
getDay(t, off) == ((t + off) \div 24) % 7
\* the weekday of a calendar day, 0 = Sunday
DayOfWeek(d) == d % 7

DateInit ==
    /\ pc = "date"
    /\ today \in StartInstants \X Offsets
    /\ formattedDate = -1
    /\ debug_mode = FALSE
    /\ preferred_court = "1"
    /\ component = "main"
    /\ session = "set"
    /\ browser = "set"
    /\ priorityTimes = <<>>
    /\ headers = <<>>
    /\ grid = <<>>
    /\ modal = NoModal
    /\ bookingAttempts = 0
    /\ slot = 0
    /\ targetTime = "none"
    /\ clickResult = NoClickResult
    /\ step = 0
    /\ isSlotAlreadyBooked = FALSE
    /\ poll = 0
    /\ error = "none"
    /\ result = NoResult
    /\ act = "none"
    /\ selectorCalls = 0
    /\ picked = <<>>
    /\ conflicts = 0
    /\ stepsClicked = 0
    /\ sessionsCreated = 1
    /\ browsersConnected = 1
    /\ closeCalls = 0
    /\ stopCalls = 0
    /\ logs = <<>>
    /\ runs = NoRuns
    /\ inflight = {}
    /\ slots = <<>>
    /\ dialog = NoDialog
    /\ clickedSteps = <<>>
    /\ confirmClicks = 0
    /\ boot = NoBoot
    /\ currentUrlAfterSlots = <<>>
    /\ currentUrl = <<>>

\* lines 194-206: the date string of the URL and the list of preferred times
TargetDate ==
    /\ pc = "date"
    /\ LET futureDate == setDate(today[1])
           isWeekend == getDay(futureDate, today[2]) = 0
                            \/ getDay(futureDate, today[2]) = 6
       IN  /\ formattedDate' = toISODate(futureDate)
           /\ priorityTimes' = IF isWeekend THEN weekendTimes ELSE weekdayTimes
    /\ pc' = "dated"
    /\ UNCHANGED << debug_mode, preferred_court, component, logs, runs, inflight,
                    slots, dialog, clickedSteps, currentUrl, currentUrlAfterSlots,
                    today, boot, confirmClicks, resVars, gridVars, modal,
                    bookingAttempts, clickResult, locals, histVars, error,
                    result, act >>

DateNext == TargetDate

SpecDate == DateInit /\ [][DateNext]_vars

\* C34: the list of preferred times is the weekend list exactly when the
\* date that is booked (the day of the URL) is a Saturday or a Sunday,
\* whatever the time of day and the time-zone offset of the host.
C34_WeekendListIffWeekendDate ==
    pc = "dated" =>
        (priorityTimes = weekendTimes <=> DayOfWeek(formattedDate) \in {0, 6})

\* C35: in the court-released run, once the 'already booked' marker has been
\* observed no dialog button is clicked and no slot is selected any more, and
\* the run ends with the browser closed, the session stopped and a result
\* with success=false carrying the 'already booked' error.
C35_ReleasedConflictEndsRun ==
    [][ error = RelBookedMsg =>
          /\ stepsClicked' = stepsClicked
          /\ clickResult' = clickResult
          /\ act' \notin {"slotClick", "slotClickAgain", "clickNext", "clickConfirm"}
          /\ (pc # "relDone" /\ pc' = "relDone") =>
                /\ closeCalls' = 1
                /\ stopCalls' = 1
                /\ result'.kind = "returned"
                /\ ~result'.success
                /\ result'.error = RelBookedMsg
      ]_vars

\* C36: in the court-released run, for a subject that is missing, is no padel
\* court-release notice or cannot be parsed into a valid date and time (the
\* run then holds no time of day as its target), no session is created, no
\* browser is connected and no page operation is performed.
C36_NoSessionForBadSubject ==
    targetTime \notin RunTimes =>
        /\ sessionsCreated = 0
        /\ browsersConnected = 0
        /\ act = "none"

(* ------- the profile bootstrap utility (create_dual_hyperbrowser_profiles.js) ------- *)
\* the users array of the top-level function
NumUsers == 2
Users == 1..NumUsers
Credentials == {"email", "password", "apiKey"}

\* the state of the utility in the variable boot:
\*   user      index of the user of the current loop iteration
\*   creds     the credentials present in the environment, per user
\*   browser   the local browser of createProfileAndLogin
\*   profiles  profiles created, per user
\*   sessions  "none", "open" or "stopped", per user
\*   started   the users for which createProfileAndLogin has been called
\*   done      the users for which createProfileAndLogin has returned
bootUnused == << debug_mode, preferred_court, component, logs, runs, inflight,
                 slots, dialog, clickedSteps, currentUrl, currentUrlAfterSlots,
                 today, formattedDate, confirmClicks, resVars, priorityTimes,
                 gridVars, modal, bookingAttempts, clickResult, locals,
                 histVars, act >>

ProfilesInit ==
    /\ pc = "bootLoop"
    /\ boot \in [user : {1}, creds : [Users -> SUBSET Credentials],
                 browser : {"null"}, profiles : {[u \in Users |-> 0]},
                 sessions : {[u \in Users |-> "none"]}, started : {{}},
                 done : {{}}]
    /\ formattedDate = -1
    /\ today = <<>>
    /\ debug_mode = FALSE
    /\ preferred_court = "1"
    /\ component = "main"
    /\ session = "null"
    /\ browser = "null"
    /\ priorityTimes = <<>>
    /\ headers = <<>>
    /\ grid = <<>>
    /\ modal = NoModal
    /\ bookingAttempts = 0
    /\ slot = 0
    /\ targetTime = "none"
    /\ clickResult = NoClickResult
    /\ step = 0
    /\ isSlotAlreadyBooked = FALSE
    /\ poll = 0
    /\ error = "none"
    /\ result = NoResult
    /\ act = "none"
    /\ selectorCalls = 0
    /\ picked = <<>>
    /\ conflicts = 0
    /\ stepsClicked = 0
    /\ sessionsCreated = 0
    /\ browsersConnected = 0
    /\ closeCalls = 0
    /\ stopCalls = 0
    /\ logs = <<>>
    /\ runs = NoRuns
    /\ inflight = {}
    /\ slots = <<>>
    /\ dialog = NoDialog
    /\ clickedSteps = <<>>
    /\ confirmClicks = 0
    /\ currentUrlAfterSlots = <<>>
    /\ currentUrl = <<>>

\* throw inside the try block of createProfileAndLogin
BootThrow(msg) ==
    /\ pc' = "bootCatch"
    /\ error' = msg

\* for (const user of users): the credentials check, then the call
BootLoop ==
    /\ pc = "bootLoop"
    /\ IF boot.user > NumUsers
       THEN pc' = "bootEnd" /\ UNCHANGED boot
       ELSE IF boot.creds[boot.user] # Credentials
            THEN /\ boot' = [boot EXCEPT !.user = @ + 1]
                 /\ UNCHANGED pc
            ELSE /\ boot' = [boot EXCEPT !.browser = "null",
                                         !.started = @ \cup {boot.user}]
                 /\ pc' = "bootProfile"
    /\ error' = "none"
    /\ result' = NoResult
    /\ UNCHANGED bootUnused

\* profile = await client.profiles.create()
BootCreateProfile ==
    /\ pc = "bootProfile"
    /\ boot' = [boot EXCEPT !.profiles[boot.user] = @ + 1]
    /\ pc' = "bootSession"
    /\ UNCHANGED << error, result, bootUnused >>

\* session = await client.sessions.create({profile: ...})
BootCreateSession ==
    /\ pc = "bootSession"
    /\ boot' = [boot EXCEPT !.sessions[boot.user] = "open"]
    /\ pc' = "bootConnect"
    /\ UNCHANGED << error, result, bootUnused >>

\* browser = await connect(...); const [page] = await browser.pages()
BootConnect ==
    /\ pc = "bootConnect"
    /\ boot' = [boot EXCEPT !.browser = "set"]
    /\ pc' = "bootLogin"
    /\ UNCHANGED << error, result, bootUnused >>

\* goto, waitForSelector('form'), the email input, type, click, waitForNavigation
BootLogin ==
    /\ pc = "bootLogin"
    /\ \E emailInput \in BOOLEAN :
          IF emailInput
          THEN pc' = "bootClose" /\ UNCHANGED error
          ELSE BootThrow(NoEmailMsg)
    /\ UNCHANGED << boot, result, bootUnused >>

\* await browser.close()
BootCloseBrowser ==
    /\ pc = "bootClose"
    /\ pc' = "bootStop"
    /\ UNCHANGED << boot, error, result, bootUnused >>

\* await client.sessions.stop(session.id); return {success: true, ...}
BootStopSession ==
    /\ pc = "bootStop"
    /\ boot' = [boot EXCEPT !.sessions[boot.user] = "stopped",
                            !.done = @ \cup {boot.user}]
    /\ result' = [NoResult EXCEPT !.kind = "returned", !.success = TRUE]
    /\ pc' = "bootReport"
    /\ UNCHANGED << error, bootUnused >>

\* the awaited calls of the try block
BootAwaits ==
    {"bootProfile", "bootSession", "bootConnect", "bootLogin", "bootClose",
     "bootStop"}

BootOperationRejects ==
    /\ pc \in BootAwaits
    /\ BootThrow(RejectedMsg)
    /\ UNCHANGED << boot, result, bootUnused >>

\* catch: if (browser) await browser.close()
BootCatchClose ==
    /\ pc = "bootCatch"
    /\ pc' = "bootCatchStop"
    /\ UNCHANGED << boot, error, result, bootUnused >>

\* catch: if (session) await client.sessions.stop(session.id); return {...}
BootCatchStop ==
    /\ pc = "bootCatchStop"
    /\ boot' = [boot EXCEPT
                  !.sessions[boot.user] = IF @ = "open" THEN "stopped" ELSE @,
                  !.done = @ \cup {boot.user}]
    /\ result' = FailureResult
    /\ pc' = "bootReport"
    /\ UNCHANGED << error, bootUnused >>

\* an await of the catch block rejects: createProfileAndLogin rejects, and
\* with it the top-level function, inside its loop
BootCatchRejects ==
    /\ \/ pc = "bootCatch" /\ boot.browser = "set"
       \/ pc = "bootCatchStop" /\ boot.sessions[boot.user] = "open"
    /\ result' = Rejection
    /\ pc' = "bootRejected"
    /\ UNCHANGED << boot, error, bootUnused >>

\* if (result.success) {...} else {...}; the next user
BootReport ==
    /\ pc = "bootReport"
    /\ boot' = [boot EXCEPT !.user = @ + 1]
    /\ pc' = "bootLoop"
    /\ UNCHANGED << error, result, bootUnused >>

ProfilesNext ==
    \/ BootLoop \/ BootCreateProfile \/ BootCreateSession \/ BootConnect
    \/ BootLogin \/ BootCloseBrowser \/ BootStopSession \/ BootOperationRejects
    \/ BootCatchClose \/ BootCatchStop \/ BootCatchRejects \/ BootReport

SpecProfiles == ProfilesInit /\ [][ProfilesNext]_vars

\* C37: the bootstrap utility takes the users one at a time: a user lacking
\* a credential gets no profile and no session, every session created for a
\* user is stopped before the next user starts, and when the utility ends
\* every user holding all credentials has been processed, whatever happened
\* to the users before.
C37_UsersOneAtATime ==
    \A u \in Users :
        /\ boot.creds[u] # Credentials =>
              (boot.profiles[u] = 0 /\ boot.sessions[u] = "none")
        /\ u < boot.user => boot.sessions[u] # "open"
        /\ (pc \in {"bootEnd", "bootRejected"} /\ boot.creds[u] = Credentials)
              => u \in boot.started

====
